---- MODULE Spec2Model ----
(***************************************************************************)
(* Model of the reactive primitives of @aklinker1/solid-primatives:        *)
(* watch, watchIgnorable, useThrottle, useDebounce, useStorage (with the   *)
(* localStorage / sessionStorage backends), useRefHistory, the query       *)
(* client with useQuery and useMutation, createSharedHook,                 *)
(* createGlobalState and toValue.                                          *)
(*                                                                         *)
(* Each primitive has its own specification (SpecWatch, SpecThrottle,      *)
(* SpecDebounce, SpecStorage, SpecHistory, SpecIgnorable, SpecQuery,       *)
(* SpecMutation, SpecSharedHook, SpecGlobalState, SpecToValue) over its    *)
(* own variables; the variables of the other primitives stay at their      *)
(* idle values. SpecQueryTeardown and SpecQueryEnabled are the query       *)
(* client with the disposal of an instance, and with reactive `key` and    *)
(* `enabled` options.                                                      *)
(*                                                                         *)
(* Host runtime (solid-js, browser build) as the code relies on it:        *)
(*  - a signal setter called with a function treats it as an updater and   *)
(*    stores the function's result;                                        *)
(*  - a signal setter given a value === to the current one notifies nobody;*)
(*  - createEffect runs the effect at once when no batch is open, and      *)
(*    queues it until the end of the batch (component render, createRoot)  *)
(*    otherwise; afterwards the effect re-runs synchronously whenever a    *)
(*    signal it read changes;                                              *)
(*  - setStore(key, object) of solid-js/store merges the object into the   *)
(*    record under the key; a property set to undefined is removed.        *)
(* Timers (setTimeout) run when they are due, before any other code that   *)
(* becomes runnable at that instant.                                       *)
(***************************************************************************)
EXTENDS Integers, Sequences, FiniteSets, TLC

\* ---------------------------------------------------------------- bounds
MaxObj == 1          \* object identities 1..MaxObj (identity 0: a primitive)
MaxContent == 2      \* contents 1..MaxContent
MaxSets == 3         \* assignments to a watched source / tracked ref
MaxCalls == 3        \* calls of a rate-limited function, writes to a setter
MaxTicks == 4        \* the clock stops after this many steps
MaxOps == 2          \* undo / redo / ignoreUpdates calls of one kind
MaxDepth == 2        \* ignoreUpdates calls open at once
MaxWrites == 2       \* assignments to the source of watchIgnorable
MaxFetches == 2      \* invocations of async functions of queries
MaxMutates == 2      \* calls of the mutate function of useMutation
MaxSubs == 4         \* calls of a shared hook / of a global state function

VARIABLES
  \* watch
  wPhase,      \* "none" | "queued" (effect waits for the batch end) | "armed"
  wImmediate,  \* options.immediate
  wDeep,       \* options.deep
  wSrc,        \* current value of the watched accessor
  wPrev,       \* the `prev` signal of watch
  wCalls,      \* invocations of cb so far, <<newValue, oldValue>> each
  wInit,       \* source value when watch was called
  wSets,       \* number of assignments to the source after construction
  wChanges,    \* <<new, old>> of each assignment that changed an armed source
  wBase,       \* invocations of cb made up to the end of the first evaluation
  \* clock and timer table (setTimeout / clearTimeout)
  now,
  timers,      \* pending timers: [id, at, arg]
  \* useThrottle
  tWaiting,    \* `waiting`
  tLog,        \* invocations of fn, <<arg, time>> each
  tCalls,      \* calls of the wrapped function, <<arg, time, interval>> each
  \* useDebounce
  dTimeout,    \* `timeout`: handle of the last timer, 0 when undefined
  dLog,        \* invocations of fn, <<arg, time>> each
  dCalls,      \* calls of the wrapped function, <<arg, time, interval>> each
  \* useStorage
  sPhase,      \* "none" | "ready"
  sStore,      \* text the backend holds under the key, NoItem when absent
  sDefault,    \* defaultValue
  sMem,        \* the in-memory signal
  sWaiting,    \* `waiting` of the throttled setItem
  sGetRaised,  \* the backend's getItem raised during construction
  sInitStore,  \* backend text at construction
  sEscaped,    \* an exception left useStorage or its setter
  sLastWrite,  \* value of the last call of the setter
  sWrites,     \* number of calls of the setter
  sWinEnd,     \* end of the current throttle window, -1 before the first
  sWin,        \* current window: values written, values handed to setValue
  sPrevWin,    \* the window before it
  \* useRefHistory
  hPhase,      \* "none" | "queued" | "settled" | "failed" (constructor threw)
  hRef,        \* ref.value
  hHistory,    \* history()
  hIndex,      \* index()
  hIgnoring,   \* ignoring() of watchIgnorable
  hPrev,       \* the `prev` signal of the inner watch
  hDeep,       \* options.deep
  hWatcherErr, \* the watcher effect raised
  hUndos, hRedos, hSets, \* operations performed so far
  hLast,       \* last operation: "none" | "set" | "undo" | "redo"
  \* watchIgnorable over an accessor source
  iPhase,      \* "none" | "queued" | "armed"
  iDeep,       \* options.deep
  iSrc,        \* current value of the watched accessor
  iPrev,       \* the `prev` signal of the inner watch
  iIgnoring,   \* ignoring()
  iTracksFlag, \* the effect read ignoring() in its last tracked evaluation
  iCalls,      \* number of invocations of the caller's cb
  iLastCall,   \* <<newValue, oldValue>> of the last invocation
  iDepth,      \* ignoreUpdates calls whose block is running
  iInnerLeft,  \* a nested ignoreUpdates finished inside a running block
  iBlockEnd,   \* how the last block ended: "none" | "returned" | "raised"
  iEscaped,    \* what left the last ignoreUpdates call: "none" | "raised"
  iSets,       \* number of assignments to the source after construction
  iBlocks,     \* number of ignoreUpdates calls
  iBlockSets,  \* changes made to the source inside the current or last block
  \* useQuery instances over one query client
  qStore,      \* client.store: canonical key |-> record
  qInst,       \* per instance: key, options.enabled,
               \* "none" | "created" (effects queued) | "mounted"
  qListeners,  \* instances listening for the invalidation event, in order
  qFlights,    \* fetches whose async function was invoked and has not settled
  qNext,       \* invocations of async functions so far, plus one
  qSeq,        \* canonical key |-> fetches of that key that invoked so far
  qInvoked,    \* per instance: invocations of its async function
  qIssued,     \* cache-bypassing fetches that got past the `enabled` test
  qBypassed,   \* invocations of async functions by cache-bypassing fetches
  qBypassDone, \* canonical key |-> newest settled cache-bypassing fetch
  qLastSettled,\* canonical key |-> the fetch of that key that settled last
  qLastGood,   \* canonical key |-> data of the last fulfilled fetch
  qCallbacks,  \* number of invocations of onSuccess / onError
  \* useMutation instances over the same client
  mInst,       \* per instance: status(), data(), error(), options.invalidate
  mFlights,    \* calls of mutate whose promise has not settled
  mNext,       \* calls of mutate so far, plus one
  mLast,       \* the call of mutate that settled last and what it did
  \* a hook wrapped by createSharedHookUnstable
  shSubscribers, \* `subscribers`
  shDispose,   \* `dispose`: 0 when undefined, else the scope it disposes
  shState,     \* `state`
  shLive,      \* subscribers whose owner is alive: id, arguments, result
  shNext,      \* calls of the shared hook so far, plus one
  shRuns,      \* runs of the wrapped hook so far (one scope each)
  shDisposed,  \* scopes that were disposed
  shPeriodRuns,\* runs of the wrapped hook since no subscriber was live
  shFirst,     \* what the first subscriber of the current period received
  \* a factory wrapped by createGlobalStateUnstable
  gInitialized,\* `initialized`
  gState,      \* `state`
  gRuns,       \* runs of the factory so far (one scope each)
  gScopeOwner, \* owner the scope of the factory hangs under, 0: none
  gCallers,    \* the calls so far: id, arguments, result, caller disposed?
  gNext,       \* calls so far, plus one
  gFirstArg,   \* arguments of the first call, 0 before it
  gDisposed,   \* scopes that were disposed
  \* toValue
  vPhase,      \* "none" | "given" | "applied"
  vInput,      \* the argument
  vResult,     \* outcome of toValue(vInput), the variant that knows refs
  vPlain       \* outcome of toValue(vInput), the variant without refs

wVars == <<wPhase, wImmediate, wDeep, wSrc, wPrev, wCalls, wInit, wSets,
           wChanges, wBase>>
clockVars == <<now, timers>>
tVars == <<tWaiting, tLog, tCalls>>
dVars == <<dTimeout, dLog, dCalls>>
sVars == <<sPhase, sStore, sDefault, sMem, sWaiting, sGetRaised, sInitStore,
           sEscaped, sLastWrite, sWrites, sWinEnd, sWin, sPrevWin>>
hVars == <<hPhase, hRef, hHistory, hIndex, hIgnoring, hPrev, hDeep, hWatcherErr,
           hUndos, hRedos, hSets, hLast>>
iVars == <<iPhase, iDeep, iSrc, iPrev, iIgnoring, iTracksFlag, iCalls, iLastCall,
           iDepth,
           iInnerLeft, iBlockEnd, iEscaped, iSets, iBlocks, iBlockSets>>
qVars == <<qStore, qInst, qListeners, qFlights, qNext, qSeq, qInvoked,
           qIssued, qBypassed, qBypassDone, qLastSettled, qLastGood, qCallbacks>>
mVars == <<mInst, mFlights, mNext, mLast>>
shVars == <<shSubscribers, shDispose, shState, shLive, shNext, shRuns,
            shDisposed, shPeriodRuns, shFirst>>
gVars == <<gInitialized, gState, gRuns, gScopeOwner, gCallers, gNext,
           gFirstArg, gDisposed>>
vVars == <<vPhase, vInput, vResult, vPlain>>
vars == <<wVars, clockVars, tVars, dVars, sVars, hVars, iVars, qVars, mVars,
          shVars, gVars, vVars>>

\* ---------------------------------------------------------------- values
\* A JavaScript value is <<identity, content>>: identity 0 is a primitive,
\* identity > 0 an object. === compares both, dequal the content of objects.
Undef == <<0, 0>>
Values == {<<i, c>> : i \in 0..MaxObj, c \in 1..MaxContent}
StrictEq(a, b) == a = b
Dequal(a, b) == a = b \/ (a[1] > 0 /\ b[1] > 0 /\ a[2] = b[2])

\* ---------------------------------------------------------------- idle states
WatchIdle ==
  /\ wPhase = "none" /\ wImmediate = FALSE /\ wDeep = FALSE
  /\ wSrc = Undef /\ wPrev = Undef /\ wCalls = <<>> /\ wInit = Undef
  /\ wSets = 0 /\ wChanges = <<>> /\ wBase = 0
ClockIdle == now = 0 /\ timers = {}
ThrottleIdle == tWaiting = FALSE /\ tLog = <<>> /\ tCalls = <<>>
DebounceIdle == dTimeout = 0 /\ dLog = <<>> /\ dCalls = <<>>
NoItem == <<"absent", 0>>
NoWindow == [written |-> <<>>, received |-> <<>>]
JNull == <<"null", 0>>
StorageIdle ==
  /\ sPhase = "none" /\ sStore = NoItem /\ sDefault = JNull /\ sMem = JNull
  /\ sWaiting = FALSE /\ sGetRaised = FALSE /\ sInitStore = NoItem
  /\ sEscaped = FALSE /\ sLastWrite = JNull /\ sWrites = 0
  /\ sWinEnd = -1 /\ sWin = NoWindow /\ sPrevWin = NoWindow
HistoryIdle ==
  /\ hPhase = "none" /\ hRef = Undef /\ hHistory = <<>> /\ hIndex = 0
  /\ hIgnoring = FALSE /\ hPrev = Undef /\ hDeep = FALSE /\ hWatcherErr = FALSE
  /\ hUndos = 0 /\ hRedos = 0 /\ hSets = 0 /\ hLast = "none"

IgnorableIdle ==
  /\ iPhase = "none" /\ iDeep = FALSE /\ iSrc = Undef /\ iPrev = Undef
  /\ iIgnoring = FALSE /\ iTracksFlag = FALSE
  /\ iCalls = 0 /\ iLastCall = <<Undef, Undef>>
  /\ iDepth = 0 /\ iInnerLeft = FALSE
  /\ iBlockEnd = "none" /\ iEscaped = "none"
  /\ iSets = 0 /\ iBlocks = 0 /\ iBlockSets = 0

QueryIdle ==
  /\ qStore = <<>> /\ qInst = <<>> /\ qListeners = <<>> /\ qFlights = {}
  /\ qNext = 1 /\ qSeq = <<>> /\ qInvoked = <<>> /\ qIssued = 0
  /\ qBypassed = 0 /\ qBypassDone = <<>>
  /\ qLastSettled = <<>> /\ qLastGood = <<>>
  /\ qCallbacks = 0

MutationIdle == mInst = <<>> /\ mFlights = {} /\ mNext = 1 /\ mLast = <<>>

\* the result of a hook: <<arguments it ran with, number of the run>>
NoResult == <<0, 0>>
SharedHookIdle ==
  /\ shSubscribers = 0 /\ shDispose = 0 /\ shState = NoResult /\ shLive = {}
  /\ shNext = 1 /\ shRuns = 0 /\ shDisposed = {} /\ shPeriodRuns = 0
  /\ shFirst = NoResult
GlobalStateIdle ==
  /\ gInitialized = FALSE /\ gState = NoResult /\ gRuns = 0
  /\ gScopeOwner = 0 /\ gCallers = {} /\ gNext = 1 /\ gFirstArg = 0
  /\ gDisposed = {}
ToValueIdle ==
  vPhase = "none" /\ vInput = <<>> /\ vResult = <<>> /\ vPlain = <<>>

\* ================================================================ watch
\* watch.ts:43  the change test of the effect
Differs(deep, oldValue, newValue) ==
  IF deep THEN ~Dequal(oldValue, newValue) ELSE ~StrictEq(oldValue, newValue)

\* watch.ts:46  setPrev(prev): the setter is handed the accessor `prev`, a
\* function, so it calls it as an updater; the accessor ignores its argument
\* and returns the current value of the signal, which is stored back.
SetPrev(prevValue, newValue) == prevValue

\* watch.ts:42  value(): the source is called as a function; a reference cell
\* is a plain object, and calling it raises a TypeError.
SourceCallRaises(kind) == kind = "ref"

\* watch.ts:39-47  one evaluation of the effect over an accessor source:
\* the invocations of cb after it
EffectCalls(deep, prevValue, srcValue, calls) ==
  IF Differs(deep, prevValue, srcValue)
  THEN Append(calls, <<srcValue, prevValue>>)
  ELSE calls

\* watch.ts:32-52  watch(value, cb, options). `deferred`: a batch is open, so
\* createEffect queues the effect instead of running it.
Watch(immediate, deep, deferred) ==
  /\ wPhase = "none"
  /\ wImmediate' = immediate /\ wDeep' = deep
  /\ wInit' = wSrc
  /\ LET afterCreate == IF deferred THEN wCalls
                        ELSE EffectCalls(deep, wPrev, wSrc, wCalls)
         prevCreate == IF deferred THEN wPrev ELSE SetPrev(wPrev, wSrc)
     IN /\ wCalls' = IF immediate
                     THEN EffectCalls(deep, prevCreate, wSrc, afterCreate)
                     ELSE afterCreate
        /\ wPrev' = IF immediate THEN SetPrev(prevCreate, wSrc) ELSE prevCreate
  /\ wPhase' = IF deferred THEN "queued" ELSE "armed"
  /\ wBase' = Len(wCalls')
  /\ UNCHANGED <<wSrc, wSets, wChanges>>
  /\ UNCHANGED <<clockVars, tVars, dVars, sVars, hVars, iVars, qVars, mVars, shVars, gVars, vVars>>

\* watch.ts:48  the batch ends: the queued effect has its first evaluation
WatchFlush ==
  /\ wPhase = "queued"
  /\ wCalls' = EffectCalls(wDeep, wPrev, wSrc, wCalls)
  /\ wPrev' = SetPrev(wPrev, wSrc)
  /\ wPhase' = "armed"
  /\ wBase' = Len(wCalls')
  /\ UNCHANGED <<wImmediate, wDeep, wSrc, wInit, wSets, wChanges>>
  /\ UNCHANGED <<clockVars, tVars, dVars, sVars, hVars, iVars, qVars, mVars, shVars, gVars, vVars>>

\* An assignment to the watched signal. The runtime drops an assignment of a
\* === value; otherwise it stores it and re-runs the effect if the effect has
\* already read the signal (watch.ts:39-47).
SetSource(v) ==
  /\ wPhase \in {"queued", "armed"}
  /\ wSets < MaxSets
  /\ wSets' = wSets + 1
  /\ IF StrictEq(v, wSrc)
     THEN UNCHANGED <<wSrc, wCalls, wPrev, wChanges>>
     ELSE /\ wSrc' = v
          /\ IF wPhase = "armed"
             THEN /\ wCalls' = EffectCalls(wDeep, wPrev, v, wCalls)
                  /\ wPrev' = SetPrev(wPrev, v)
                  /\ wChanges' = IF Differs(wDeep, wSrc, v)
                                 THEN Append(wChanges, <<v, wSrc>>)
                                 ELSE wChanges
             ELSE UNCHANGED <<wCalls, wPrev, wChanges>>
  /\ UNCHANGED <<wPhase, wImmediate, wDeep, wInit, wBase>>
  /\ UNCHANGED <<clockVars, tVars, dVars, sVars, hVars, iVars, qVars, mVars, shVars, gVars, vVars>>

InitWatch ==
  /\ wPhase = "none" /\ wImmediate = FALSE /\ wDeep = FALSE
  /\ wSrc \in Values /\ wPrev = Undef /\ wCalls = <<>> /\ wInit = Undef
  /\ wSets = 0 /\ wChanges = <<>> /\ wBase = 0
  /\ ClockIdle /\ ThrottleIdle /\ DebounceIdle /\ StorageIdle /\ HistoryIdle /\ IgnorableIdle /\ QueryIdle /\ MutationIdle /\ SharedHookIdle /\ GlobalStateIdle /\ ToValueIdle

NextWatch ==
  \/ \E immediate \in BOOLEAN, deep \in BOOLEAN, deferred \in BOOLEAN :
       Watch(immediate, deep, deferred)
  \/ WatchFlush
  \/ \E v \in Values : SetSource(v)

SpecWatch == InitWatch /\ [][NextWatch]_vars

\* C1: without `immediate`, cb is not invoked during construction nor on the
\* watcher's first evaluation (no assignment to the source has happened yet).
C1_NoCallbackOnFirstEvaluation ==
  (wPhase # "none" /\ ~wImmediate /\ wSets = 0) => wCalls = <<>>

\* C2: without `immediate`, after the first evaluation cb has been invoked
\* exactly once for each assignment that changed the value of the source, with
\* (newValue, value held immediately before the change), and never for an
\* assignment of an equal value.
C2_OneCallbackPerChange ==
  (wPhase = "armed" /\ ~wImmediate) =>
     SubSeq(wCalls, wBase + 1, Len(wCalls)) = wChanges

\* C3: with `immediate`, cb is invoked exactly once at construction with
\* (currentValue, undefined); every later invocation receives the previously
\* observed source value as oldValue, never undefined.
C3_ImmediateOnceThenPrevious ==
  (wPhase # "none" /\ wImmediate) =>
     /\ Len(wCalls) >= 1
     /\ wCalls[1] = <<wInit, Undef>>
     /\ wSets = 0 => Len(wCalls) = 1
     /\ \A i \in 2..Len(wCalls) :
          /\ wCalls[i][2] # Undef
          /\ IF wDeep THEN wCalls[i][2][2] = wCalls[i-1][1][2]
                      ELSE wCalls[i][2] = wCalls[i-1][1]

\* ================================================================ timers
\* useThrottle.ts:8, useDebounce.ts:15  interval = 100
DefaultInterval == 100
\* the clock advances by at most half the default interval at once (ms)
Step == DefaultInterval \div 2
MaxTime == MaxTicks * Step
Args == 1..MaxContent
\* intervals toValue(interval) resolves to; 100 is the default
Intervals == {Step, DefaultInterval}
NoArg == 0

\* a timer whose time has come: it runs before anything else does
AnyDue == \E t \in timers : t.at <= now

Min(S) == CHOOSE x \in S : \A y \in S : x <= y

\* time passes, up to the next timer
Tick ==
  /\ now < MaxTime
  /\ ~AnyDue
  /\ now' = Min({now + Step, MaxTime} \cup {t.at : t \in timers})
  /\ UNCHANGED timers
  /\ UNCHANGED <<wVars, tVars, dVars, sVars, hVars, iVars, qVars, mVars, shVars, gVars, vVars>>

\* ================================================================ useThrottle
\* the guard of useThrottle.ts:12 negated
ThrottlePasses_NoGuard(waiting) == TRUE
\* useThrottle.ts:12  if (waiting) return;
ThrottlePasses(waiting) == ~waiting

\* useThrottle.ts:15-17  setTimeout(() => { waiting = false }, toValue(interval))
ThrottleTimerFor(id, interval) == [id |-> id, at |-> now + interval, arg |-> NoArg]

\* useThrottle.ts:11-18  a call of the wrapped function; fn returns normally
ThrottleCall(arg, interval) ==
  /\ ~AnyDue
  /\ Len(tCalls) < MaxCalls
  /\ tCalls' = Append(tCalls, <<arg, now, interval>>)
  /\ IF ThrottlePasses(tWaiting)
     THEN /\ tLog' = Append(tLog, <<arg, now>>)
          /\ tWaiting' = TRUE
          /\ timers' = timers \cup {ThrottleTimerFor(Len(tCalls) + 1, interval)}
     ELSE UNCHANGED <<tLog, tWaiting, timers>>
  /\ UNCHANGED now
  /\ UNCHANGED <<wVars, dVars, sVars, hVars, iVars, qVars, mVars, shVars, gVars, vVars>>

\* useThrottle.ts:15-17  the timer callback
ThrottleTimer ==
  /\ \E t \in timers :
       /\ t.at <= now
       /\ timers' = timers \ {t}
  /\ tWaiting' = FALSE
  /\ UNCHANGED <<now, tLog, tCalls>>
  /\ UNCHANGED <<wVars, dVars, sVars, hVars, iVars, qVars, mVars, shVars, gVars, vVars>>

InitThrottle ==
  WatchIdle /\ ClockIdle /\ ThrottleIdle /\ DebounceIdle /\ StorageIdle /\ HistoryIdle /\ IgnorableIdle /\ QueryIdle /\ MutationIdle /\ SharedHookIdle /\ GlobalStateIdle /\ ToValueIdle

NextThrottle ==
  \/ \E arg \in Args, interval \in Intervals : ThrottleCall(arg, interval)
  \/ ThrottleTimer
  \/ Tick

SpecThrottle == InitThrottle /\ [][NextThrottle]_vars

\* What the claim prescribes, from the calls and their times alone: a call at
\* or after the end of the last window invokes fn and opens a window of its
\* interval; a call inside a window is dropped.
RECURSIVE ThrottleExpected(_, _, _)
ThrottleExpected(calls, i, windowEnd) ==
  IF i > Len(calls) THEN <<>>
  ELSE IF calls[i][2] >= windowEnd
       THEN <<<<calls[i][1], calls[i][2]>>>>
               \o ThrottleExpected(calls, i + 1, calls[i][2] + calls[i][3])
       ELSE ThrottleExpected(calls, i + 1, windowEnd)

RECURSIVE ThrottleWindowEnd(_, _, _)
ThrottleWindowEnd(calls, i, windowEnd) ==
  IF i > Len(calls) THEN windowEnd
  ELSE IF calls[i][2] >= windowEnd
       THEN ThrottleWindowEnd(calls, i + 1, calls[i][2] + calls[i][3])
       ELSE ThrottleWindowEnd(calls, i + 1, windowEnd)

\* C4: the invocations of fn are exactly the calls made while no window is
\* open, each made at the time of its call with that call's arguments; each
\* opens a window of its interval; calls inside a window never invoke fn.
C4_ThrottleLeadingEdge ==
  /\ tLog = ThrottleExpected(tCalls, 1, 0)
  /\ tWaiting <=> timers # {}
  /\ \A t \in timers : t.at = ThrottleWindowEnd(tCalls, 1, 0) /\ now <= t.at
  /\ Cardinality(timers) <= 1
  /\ ~tWaiting => now >= ThrottleWindowEnd(tCalls, 1, 0)

\* three calls, the second dropped inside the first window, a later one
\* invoking fn again after the window
C4_Witness ==
  /\ Len(tLog) >= 2
  /\ Len(tCalls) >= 3
  /\ tCalls[2][2] < tLog[2][2]
  /\ tCalls[2][1] # tCalls[1][1]

\* ================================================================ useDebounce
\* clearTimeout left out
ClearTimeout_Forgotten(table, handle) == table
\* useDebounce.ts:19  clearTimeout(timeout); an undefined handle clears nothing
ClearTimeout(table, handle) == {t \in table : t.id # handle}

\* useDebounce.ts:18-23  a call of the wrapped function
DebounceCall(arg, interval) ==
  /\ ~AnyDue
  /\ Len(dCalls) < MaxCalls
  /\ dCalls' = Append(dCalls, <<arg, now, interval>>)
  /\ LET id == Len(dCalls) + 1
     IN /\ timers' = ClearTimeout(timers, dTimeout)
                       \cup {[id |-> id, at |-> now + interval, arg |-> arg]}
        /\ dTimeout' = id
  /\ UNCHANGED <<now, dLog>>
  /\ UNCHANGED <<wVars, tVars, sVars, hVars, iVars, qVars, mVars, shVars, gVars, vVars>>

\* useDebounce.ts:20-22  the timer callback: fn(...args)
DebounceTimer ==
  /\ \E t \in timers :
       /\ t.at <= now
       /\ timers' = timers \ {t}
       /\ dLog' = Append(dLog, <<t.arg, now>>)
  /\ UNCHANGED <<now, dTimeout, dCalls>>
  /\ UNCHANGED <<wVars, tVars, sVars, hVars, iVars, qVars, mVars, shVars, gVars, vVars>>

InitDebounce ==
  WatchIdle /\ ClockIdle /\ ThrottleIdle /\ DebounceIdle /\ StorageIdle /\ HistoryIdle /\ IgnorableIdle /\ QueryIdle /\ MutationIdle /\ SharedHookIdle /\ GlobalStateIdle /\ ToValueIdle

NextDebounce ==
  \/ \E arg \in Args, interval \in Intervals : DebounceCall(arg, interval)
  \/ DebounceTimer
  \/ Tick

SpecDebounce == InitDebounce /\ [][NextDebounce]_vars

\* call k ends its burst: no call follows within its interval
EndsBurst(calls, k) ==
  k = Len(calls) \/ calls[k + 1][2] >= calls[k][2] + calls[k][3]

\* What the claim prescribes: one invocation per burst, at the last call's
\* time plus its interval, with the last call's arguments; `limit` is the
\* latest time whose invocations are counted.
RECURSIVE DebounceExpected(_, _, _)
DebounceExpected(calls, k, limit) ==
  IF k > Len(calls) THEN <<>>
  ELSE IF EndsBurst(calls, k) /\ calls[k][2] + calls[k][3] <= limit
       THEN <<<<calls[k][1], calls[k][2] + calls[k][3]>>>>
               \o DebounceExpected(calls, k + 1, limit)
       ELSE DebounceExpected(calls, k + 1, limit)

\* C5: at most one timer is pending, it belongs to the last call, and fn has
\* been invoked exactly once per burst, `interval` after the burst's last call
\* and with that call's arguments (an invocation due at this very instant may
\* still be pending).
C5_DebounceTrailingEdge ==
  /\ Cardinality(timers) <= 1
  /\ \A t \in timers :
       /\ dCalls # <<>>
       /\ t.id = dTimeout /\ t.id = Len(dCalls)
       /\ t.arg = dCalls[Len(dCalls)][1]
       /\ t.at = dCalls[Len(dCalls)][2] + dCalls[Len(dCalls)][3]
  /\ dLog = DebounceExpected(dCalls, 1, IF AnyDue THEN now - 1 ELSE now)

\* a burst of two calls with different arguments, then fn invoked once with
\* the second call's arguments, and a later burst invoked too
C5_Witness ==
  /\ Len(dCalls) >= 3
  /\ dCalls[2][2] < dCalls[1][2] + dCalls[1][3]
  /\ dCalls[2][2] > dCalls[1][2]
  /\ dCalls[1][1] # dCalls[2][1]
  /\ Len(dLog) = 2
  /\ dLog[1] = <<dCalls[2][1], dCalls[2][2] + dCalls[2][3]>>

\* ================================================================ useStorage
\* JSON values: <<"num", n>>, <<"str", n>> and null (JNull, which also stands
\* for undefined: `??` and `== null` treat them alike).
JVals == {<<"num", 1>>, <<"num", 2>>, <<"str", 1>>, JNull}
\* Texts a backend can hold: <<"digits", n>> is the text of the number n,
\* <<"quoted", n>> the text of the string n in double quotes, <<"nulltext", 0>>
\* the text null, <<"garbage", 0>> a text that is no JSON.
Texts == {<<"digits", 1>>, <<"digits", 2>>, <<"quoted", 1>>,
          <<"nulltext", 0>>, <<"garbage", 0>>}

\* useWindowEventListener.ts:54, useSessionStorage.ts:26  JSON.stringify(value)
Stringify(v) ==
  CASE v[1] = "num" -> <<"digits", v[2]>>
    [] v[1] = "str" -> <<"quoted", v[2]>>
    [] OTHER -> <<"nulltext", 0>>

\* useWindowEventListener.ts:50, useSessionStorage.ts:22  JSON.parse(str)
ParseRaises(text) == text[1] = "garbage"
Parse(text) ==
  CASE text[1] = "digits" -> <<"num", text[2]>>
    [] text[1] = "quoted" -> <<"str", text[2]>>
    [] OTHER -> JNull

\* useWindowEventListener.ts:48-51, useSessionStorage.ts:20-23  getValue(key);
\* `getRaises`: the browser's getItem raises
BackendGet(store, getRaises) ==
  IF getRaises THEN [raised |-> TRUE, value |-> JNull]
  ELSE IF store = NoItem THEN [raised |-> FALSE, value |-> JNull]
  ELSE IF ParseRaises(store) THEN [raised |-> TRUE, value |-> JNull]
  ELSE [raised |-> FALSE, value |-> Parse(store)]

\* useWindowEventListener.ts:52-55, useSessionStorage.ts:24-27  setValue(key,
\* value), when the browser's setItem / removeItem does not raise
BackendSet(store, v) == IF v = JNull THEN NoItem ELSE Stringify(v)

\* getItem without the `??` fallback
GetItem_NoFallback(store, getRaises, default) ==
  LET r == BackendGet(store, getRaises)
  IN [escaped |-> FALSE, value |-> IF r.raised THEN default ELSE r.value]
\* useStorage.ts:26-33  getItem
GetItem(store, getRaises, default) ==
  LET r == BackendGet(store, getRaises)
  IN [escaped |-> FALSE,
      value |-> IF r.raised THEN default
                ELSE IF r.value = JNull THEN default ELSE r.value]

\* the throttled function without its try / catch
SetItemEscapes_NoCatch(setRaises) == setRaises
\* useStorage.ts:35-39  try { storage.setValue(...) } catch { console.warn }
SetItemEscapes(setRaises) == FALSE

\* useStorage.ts:21-49  useStorage(storage, key, defaultValue)
UseStorage(getRaises) ==
  /\ sPhase = "none"
  /\ LET r == GetItem(sStore, getRaises, sDefault)
     IN /\ sMem' = r.value
        /\ sEscaped' = r.escaped
  /\ sPhase' = "ready"
  /\ sGetRaised' = getRaises
  /\ sInitStore' = sStore
  /\ UNCHANGED <<sStore, sDefault, sWaiting, sLastWrite, sWrites, sWinEnd, sWin,
                 sPrevWin>>
  /\ UNCHANGED <<wVars, clockVars, tVars, dVars, hVars, iVars, qVars, mVars, shVars, gVars, vVars>>

\* useStorage.ts:43-46  setValue(value): the signal, then the throttled
\* setItem (useStorage.ts:34-40, useThrottle.ts:11-18); `setRaises`: the
\* backend's setValue raises
StorageWrite(v, setRaises) ==
  /\ sPhase = "ready"
  /\ ~AnyDue
  /\ sWrites < MaxCalls
  /\ sWrites' = sWrites + 1
  /\ sLastWrite' = v
  /\ sMem' = v
  /\ LET passes == ThrottlePasses(sWaiting)
         handed == IF passes THEN <<v>> ELSE <<>>
     IN /\ setRaises => passes
        /\ IF passes
           THEN /\ sStore' = IF setRaises THEN sStore ELSE BackendSet(sStore, v)
                /\ sEscaped' = (sEscaped \/ SetItemEscapes(setRaises))
                /\ sWaiting' = TRUE
                /\ timers' = timers \cup
                               {ThrottleTimerFor(sWrites + 1, DefaultInterval)}
           ELSE UNCHANGED <<sStore, sEscaped, sWaiting, timers>>
        /\ IF sWinEnd = -1 \/ now >= sWinEnd
           THEN /\ sWinEnd' = now + DefaultInterval
                /\ sPrevWin' = sWin
                /\ sWin' = [written |-> <<v>>, received |-> handed]
           ELSE /\ sWin' = [written |-> Append(sWin.written, v),
                            received |-> sWin.received \o handed]
                /\ UNCHANGED <<sWinEnd, sPrevWin>>
  \* defaultValue is read by getItem alone (useStorage.ts:28,31), during
  \* construction; the record of the construction is dropped at the first write
  /\ sDefault' = JNull /\ sGetRaised' = FALSE /\ sInitStore' = NoItem
  /\ UNCHANGED <<sPhase, now>>
  /\ UNCHANGED <<wVars, tVars, dVars, hVars, iVars, qVars, mVars, shVars, gVars, vVars>>

\* useThrottle.ts:15-17  the timer callback of the throttled setItem
StorageTimer ==
  /\ \E t \in timers :
       /\ t.at <= now
       /\ timers' = timers \ {t}
  /\ sWaiting' = FALSE
  /\ UNCHANGED <<sPhase, sStore, sDefault, sMem, sGetRaised, sInitStore, sEscaped,
                 sLastWrite, sWrites, sWinEnd, sWin, sPrevWin, now>>
  /\ UNCHANGED <<wVars, tVars, dVars, hVars, iVars, qVars, mVars, shVars, gVars, vVars>>

InitStorage ==
  /\ sPhase = "none" /\ sStore \in Texts \cup {NoItem}
  /\ sDefault \in JVals \ {JNull} /\ sMem = JNull
  /\ sWaiting = FALSE /\ sGetRaised = FALSE /\ sInitStore = NoItem
  /\ sEscaped = FALSE /\ sLastWrite = JNull /\ sWrites = 0
  /\ sWinEnd = -1 /\ sWin = NoWindow /\ sPrevWin = NoWindow
  /\ WatchIdle /\ ClockIdle /\ ThrottleIdle /\ DebounceIdle /\ HistoryIdle /\ IgnorableIdle /\ QueryIdle /\ MutationIdle /\ SharedHookIdle /\ GlobalStateIdle /\ ToValueIdle

NextStorage ==
  \/ \E getRaises \in BOOLEAN : UseStorage(getRaises)
  \/ \E v \in JVals, setRaises \in BOOLEAN : StorageWrite(v, setRaises)
  \/ StorageTimer
  \/ Tick

SpecStorage == InitStorage /\ [][NextStorage]_vars

\* C6: after every write the setter has returned normally and the read
\* accessor returns the value just written, also when the backend's setValue
\* raised or the throttle suppressed the write-through.
C6_WriteVisibleAndSilent ==
  (sPhase = "ready" /\ sWrites > 0) => (sMem = sLastWrite /\ ~sEscaped)

\* two writes in one window: the first one's setValue raised (the backend does
\* not hold it), the second was suppressed, and memory holds the second
C6_Witness ==
  /\ Len(sWin.written) = 2
  /\ sWin.received = <<sWin.written[1]>>
  /\ sWin.written[1] # JNull
  /\ sStore # Stringify(sWin.written[1])
  /\ sWin.written[2] # sWin.written[1]
  /\ sMem = sWin.written[2]

\* C7: in a finished throttle window the backend's setValue was called at
\* most once, with the last value written in that window.
C7_BackendGetsLastOfWindow ==
  sPrevWin.written # <<>> =>
     sPrevWin.received = <<sPrevWin.written[Len(sPrevWin.written)]>>

\* What the code does instead of C7: in every throttle window the backend's
\* setValue is called exactly once, with the first value written in that
\* window; the later writes of the window never reach the backend.
C7_BackendGetsFirstOfWindow ==
  \A w \in {sWin, sPrevWin} :
     w.written # <<>> => w.received = <<w.written[1]>>

\* a finished window with two different writes, and a later window
C7_Witness ==
  /\ Len(sPrevWin.written) >= 2
  /\ sPrevWin.written[1] # sPrevWin.written[Len(sPrevWin.written)]
  /\ sWin.written # <<>>

Clone(v) == IF v[1] = 0 THEN v ELSE <<MaxObj + 1, v[2]>>

\* history()[i] with the 0-based index of the code; undefined out of range
At(history, i) == IF i + 1 \in DOMAIN history THEN history[i + 1] ELSE Undef

Max2(a, b) == IF a >= b THEN a ELSE b
Min2(a, b) == IF a <= b THEN a ELSE b

\* undo without the clamp at 0
UndoIndex_NoClamp(index) == index - 1
\* part_000:30  Math.max(index() - 1, 0)
UndoIndex(index) == Max2(index - 1, 0)
\* redo without the clamp at the last entry
RedoIndex_NoClamp(index, history) == index + 1
\* part_000:39  Math.min(index() + 1, history().length - 1)
RedoIndex(index, history) == Min2(index + 1, Len(history) - 1)

\* part_000:46-47
canUndo == hIndex > 0
canRedo == hIndex < Len(hHistory) - 1

\* part_000:19-25  the callback handed to watchIgnorable
Record(history, index, newValue) ==
  [history |-> SubSeq(history, 1, index + 1) \o <<Clone(newValue)>>,
   index |-> index + 1]

\* One evaluation of the watcher's effect (watch.ts:39-47) with the callback of
\* watchIgnorable (part_003:28-31) around Record. The source is the ref itself
\* (part_000:19, part_003:28), so value() raises before anything is compared.
HistoryEffect(kind, deep, ignoring, prevValue, refValue, history, index) ==
  IF SourceCallRaises(kind)
  THEN [raised |-> TRUE, prev |-> prevValue, history |-> history, index |-> index]
  ELSE LET fire == Differs(deep, prevValue, refValue) /\ ~ignoring
           rec == Record(history, index, refValue)
       IN [raised |-> FALSE, prev |-> SetPrev(prevValue, refValue),
           history |-> IF fire THEN rec.history ELSE history,
           index |-> IF fire THEN rec.index ELSE index]

\* part_000:13-26  useRefHistoryUnstable(ref, options); `deferred` as in Watch.
\* The effect runs during the call when no batch is open (watch.ts:48) or when
\* `immediate` is set (watch.ts:50); if it raises, so does the constructor.
UseRefHistory(immediate, deep, deferred) ==
  /\ hPhase = "none"
  /\ LET h0 == <<Clone(hRef)>>
         runs == ~deferred \/ immediate
         e == HistoryEffect("ref", deep, FALSE, hPrev, hRef, h0, 0)
     IN /\ hHistory' = IF runs THEN e.history ELSE h0
        /\ hIndex' = IF runs THEN e.index ELSE 0
        /\ hPrev' = IF runs THEN e.prev ELSE hPrev
        /\ hWatcherErr' = (runs /\ e.raised)
        /\ hPhase' = IF runs /\ e.raised THEN "failed"
                     ELSE IF deferred THEN "queued" ELSE "settled"
  /\ hDeep' = deep
  /\ UNCHANGED <<hRef, hIgnoring, hUndos, hRedos, hSets, hLast>>
  /\ UNCHANGED <<wVars, clockVars, tVars, dVars, sVars, iVars, qVars, mVars, shVars, gVars, vVars>>

\* watch.ts:48  the batch ends: the queued effect has its first evaluation
HistoryFlush ==
  /\ hPhase = "queued"
  /\ LET e == HistoryEffect("ref", hDeep, hIgnoring, hPrev, hRef, hHistory, hIndex)
     IN /\ hHistory' = e.history /\ hIndex' = e.index /\ hPrev' = e.prev
        /\ hWatcherErr' = e.raised
  /\ hPhase' = "settled"
  /\ UNCHANGED <<hRef, hIgnoring, hDeep, hUndos, hRedos, hSets, hLast>>
  /\ UNCHANGED <<wVars, clockVars, tVars, dVars, sVars, iVars, qVars, mVars, shVars, gVars, vVars>>

\* the effect re-runs on a change of the ref only if an evaluation got as far
\* as reading it
Subscribed == hPhase = "settled" /\ ~hWatcherErr

\* ref.value = v by the owner of the ref
AssignRef(v) ==
  /\ hPhase \in {"queued", "settled"}
  /\ hSets < MaxSets
  /\ hSets' = hSets + 1
  /\ hLast' = "set"
  /\ hRef' = v
  /\ IF Subscribed /\ ~StrictEq(v, hRef)
     THEN LET e == HistoryEffect("ref", hDeep, hIgnoring, hPrev, v, hHistory, hIndex)
          IN /\ hHistory' = e.history /\ hIndex' = e.index /\ hPrev' = e.prev
             /\ hWatcherErr' = e.raised
     ELSE UNCHANGED <<hHistory, hIndex, hPrev, hWatcherErr>>
  /\ UNCHANGED <<hPhase, hIgnoring, hDeep, hUndos, hRedos>>
  /\ UNCHANGED <<wVars, clockVars, tVars, dVars, sVars, iVars, qVars, mVars, shVars, gVars, vVars>>

\* part_000:28-36  undo(), inside ignoreUpdates (part_003:34-41): the flag is
\* set, the block runs, the flag is cleared. The watcher's effect raised in
\* its only evaluation, before it read the ref, the flag or the index, so
\* none of these assignments re-runs it.
Undo ==
  /\ hPhase \in {"queued", "settled"}
  /\ ~Subscribed
  /\ hUndos < MaxOps
  /\ hUndos' = hUndos + 1
  /\ hLast' = "undo"
  /\ LET newIndex == UndoIndex(hIndex)
     IN IF newIndex # hIndex
        THEN /\ hIndex' = newIndex
             /\ hRef' = Clone(At(hHistory, newIndex))
        ELSE UNCHANGED <<hIndex, hRef>>
  /\ hIgnoring' = FALSE
  /\ UNCHANGED <<hPhase, hHistory, hPrev, hDeep, hWatcherErr, hRedos, hSets>>
  /\ UNCHANGED <<wVars, clockVars, tVars, dVars, sVars, iVars, qVars, mVars, shVars, gVars, vVars>>

\* part_000:37-45  redo(), inside ignoreUpdates
Redo ==
  /\ hPhase \in {"queued", "settled"}
  /\ ~Subscribed
  /\ hRedos < MaxOps
  /\ hRedos' = hRedos + 1
  /\ hLast' = "redo"
  /\ LET newIndex == RedoIndex(hIndex, hHistory)
     IN IF newIndex # hIndex
        THEN /\ hIndex' = newIndex
             /\ hRef' = Clone(At(hHistory, newIndex))
        ELSE UNCHANGED <<hIndex, hRef>>
  /\ hIgnoring' = FALSE
  /\ UNCHANGED <<hPhase, hHistory, hPrev, hDeep, hWatcherErr, hUndos, hSets>>
  /\ UNCHANGED <<wVars, clockVars, tVars, dVars, sVars, iVars, qVars, mVars, shVars, gVars, vVars>>

InitHistory ==
  /\ hPhase = "none" /\ hRef \in Values /\ hHistory = <<>> /\ hIndex = 0
  /\ hIgnoring = FALSE /\ hPrev = Undef /\ hDeep = FALSE /\ hWatcherErr = FALSE
  /\ hUndos = 0 /\ hRedos = 0 /\ hSets = 0 /\ hLast = "none"
  /\ WatchIdle /\ ClockIdle /\ ThrottleIdle /\ DebounceIdle /\ StorageIdle /\ IgnorableIdle /\ QueryIdle /\ MutationIdle /\ SharedHookIdle /\ GlobalStateIdle /\ ToValueIdle

NextHistory ==
  \/ \E immediate \in BOOLEAN, deep \in BOOLEAN, deferred \in BOOLEAN :
       UseRefHistory(immediate, deep, deferred)
  \/ HistoryFlush
  \/ \E v \in Values : AssignRef(v)
  \/ Undo
  \/ Redo

SpecHistory == InitHistory /\ [][NextHistory]_vars

\* C9: once the history exists, 0 <= index <= length(history) - 1 and the
\* buffer is never empty, whatever assignments, undo and redo calls were made.
C9_IndexWithinBuffer ==
  hPhase # "none" =>
     /\ Len(hHistory) >= 1
     /\ 0 <= hIndex
     /\ hIndex <= Len(hHistory) - 1

\* the ref was assigned another value, then undo and redo were called
C9_Witness ==
  /\ hPhase = "settled"
  /\ hSets >= 1 /\ hUndos >= 1 /\ hRedos >= 1
  /\ hRef[2] # hHistory[1][2]

\* C10: in every state in which canUndo() is true, undo() followed at once by
\* redo() leaves the index as it was and the ref holding a value structurally
\* equal to the one it held (neither call touches the buffer).
C10_UndoRedoRoundTrip ==
  (hPhase \in {"queued", "settled"} /\ canUndo) =>
     LET undone == UndoIndex(hIndex)
         redone == RedoIndex(undone, hHistory)
     IN /\ redone = hIndex
        /\ Dequal(Clone(At(hHistory, redone)), Clone(hRef))

\* The states C10 speaks of are never reached: no change is ever recorded
\* (the watcher raises on its first evaluation), so canUndo() is never true.
C10_NoStateCanUndo == ~canUndo

\* C11: canUndo() is true exactly when index > 0 and canRedo() exactly when
\* index < length(history) - 1; undo() called at index 0 and redo() called at
\* the last index change neither the index, nor the buffer, nor the value of
\* the tracked ref.
C11_BoundaryNoOps ==
  [][/\ canUndo' <=> hIndex' > 0
     /\ canRedo' <=> hIndex' < Len(hHistory') - 1
     /\ (hUndos' = hUndos + 1 /\ hIndex = 0)
          => UNCHANGED <<hIndex, hHistory, hRef>>
     /\ (hRedos' = hRedos + 1 /\ hIndex = Len(hHistory) - 1)
          => UNCHANGED <<hIndex, hHistory, hRef>>]_vars

\* undo() and redo() were both called at the boundary, the ref holding a value
\* other than the recorded one
C11_Witness ==
  /\ hPhase = "settled"
  /\ hUndos >= 1 /\ hRedos >= 1 /\ hLast = "redo"
  /\ hIndex = 0 /\ hIndex = Len(hHistory) - 1
  /\ ~canUndo /\ ~canRedo
  /\ hSets >= 1 /\ hRef[2] # hHistory[1][2]

\* C12: once the watcher has had its first evaluation, assigning a new value
\* to the tracked ref while the index is i makes the buffer the entries 0..i
\* followed by a snapshot of the new value and the index i + 1, so canRedo()
\* is false afterwards.
C12_RecordTruncatesAndAppends ==
  [][(hPhase = "settled" /\ hSets' = hSets + 1 /\ ~Dequal(hRef', hRef))
       => /\ hHistory' = SubSeq(hHistory, 1, hIndex + 1) \o <<Clone(hRef')>>
          /\ hIndex' = hIndex + 1
          /\ ~canRedo']_vars

\* C13: undo() and redo() never change the history buffer: the value they
\* assign back into the tracked ref is not recorded as a new entry; only the
\* index and the value of the ref change.
C13_UndoRedoKeepBuffer ==
  [][(hUndos' = hUndos + 1 \/ hRedos' = hRedos + 1)
       => hHistory' = hHistory]_vars

\* The case C13 speaks of is never reached: the buffer holds its initial entry
\* only (the watcher raises on its first evaluation), so undo() and redo() are
\* always at a boundary and assign nothing back into the ref.
C13_NothingAssignedBack ==
  [][(hUndos' = hUndos + 1 \/ hRedos' = hRedos + 1)
       => UNCHANGED <<hRef, hIndex>>]_vars

\* ================================================================ watchIgnorable
\* watchIgnorable over an accessor source (the kind of source watch can
\* evaluate). Outside a batch every setter call re-runs at once the effects
\* that read the signal in their last evaluation.

\* watch.ts:39-47 with the callback of part_003:28-31 in the place of cb: one
\* evaluation of the effect. `fired`: the caller's cb is invoked, with `call`.
\* The callback of part_003:28 runs inside the effect, so its ignoring() is a
\* tracked read: the effect then depends on the flag too (`tracks`).
IgnorableEffect(deep, ignoring, prevValue, srcValue) ==
  [fired |-> Differs(deep, prevValue, srcValue) /\ ~ignoring,
   call |-> <<srcValue, prevValue>>,
   tracks |-> Differs(deep, prevValue, srcValue)]

\* a block that raises leaves the flag set
FlagAfterBlock_NoFinally(blockEnd) == blockEnd = "raised"
\* part_003:38-40  finally { setIgnoring(false) }
FlagAfterBlock(blockEnd) == FALSE

\* part_003:34-40  try/finally without a catch clause: what the block raised
\* leaves ignoreUpdates
Rethrown(blockEnd) == IF blockEnd = "raised" THEN "raised" ELSE "none"

\* part_003:27-32  watchIgnorable(value, cb, options); `deferred` as in Watch.
\* The direct call of the effect under `immediate` (watch.ts:50) is not a
\* tracked evaluation.
WatchIgnorable(immediate, deep, deferred) ==
  /\ iPhase = "none"
  /\ iDeep' = deep
  /\ LET created == IgnorableEffect(deep, iIgnoring, iPrev, iSrc)
         prevCreate == IF deferred THEN iPrev ELSE SetPrev(iPrev, iSrc)
         direct == IgnorableEffect(deep, iIgnoring, prevCreate, iSrc)
         n1 == IF ~deferred /\ created.fired THEN 1 ELSE 0
         n2 == IF immediate /\ direct.fired THEN 1 ELSE 0
     IN /\ iCalls' = iCalls + n1 + n2
        /\ iLastCall' = IF n2 = 1 THEN direct.call
                        ELSE IF n1 = 1 THEN created.call ELSE iLastCall
        /\ iPrev' = IF immediate THEN SetPrev(prevCreate, iSrc) ELSE prevCreate
        /\ iTracksFlag' = (~deferred /\ created.tracks)
  /\ iPhase' = IF deferred THEN "queued" ELSE "armed"
  /\ UNCHANGED <<iSrc, iIgnoring, iDepth, iInnerLeft, iBlockEnd, iEscaped,
                 iSets, iBlocks, iBlockSets>>
  /\ UNCHANGED <<wVars, clockVars, tVars, dVars, sVars, hVars, qVars, mVars, shVars, gVars, vVars>>

\* a tracked evaluation of the effect with the flag at `flag` and the source
\* at `srcValue`: the variables the effect writes
RunIgnorableEffect(flag, srcValue) ==
  LET e == IgnorableEffect(iDeep, flag, iPrev, srcValue)
  IN /\ iCalls' = IF e.fired THEN iCalls + 1 ELSE iCalls
     /\ iLastCall' = IF e.fired THEN e.call ELSE iLastCall
     /\ iTracksFlag' = e.tracks
     /\ iPrev' = SetPrev(iPrev, srcValue)

\* watch.ts:48  the batch ends: the queued effect has its first evaluation
IgnorableFlush ==
  /\ iPhase = "queued"
  /\ iDepth = 0
  /\ RunIgnorableEffect(iIgnoring, iSrc)
  /\ iPhase' = "armed"
  /\ UNCHANGED <<iDeep, iSrc, iIgnoring, iDepth, iInnerLeft, iBlockEnd,
                 iEscaped, iSets, iBlocks, iBlockSets>>
  /\ UNCHANGED <<wVars, clockVars, tVars, dVars, sVars, hVars, qVars, mVars, shVars, gVars, vVars>>

\* An assignment to the watched signal, by the block of ignoreUpdates when
\* one is running (iDepth > 0) and by anyone else otherwise.
IgnorableSetSource(v) ==
  /\ iPhase \in {"queued", "armed"}
  /\ iSets < MaxWrites
  /\ iSets' = iSets + 1
  /\ IF StrictEq(v, iSrc)
     THEN UNCHANGED <<iSrc, iCalls, iLastCall, iPrev, iTracksFlag, iBlockSets>>
     ELSE /\ iSrc' = v
          /\ iBlockSets' = IF iDepth > 0 THEN iBlockSets + 1 ELSE iBlockSets
          /\ IF iPhase = "armed"
             THEN RunIgnorableEffect(iIgnoring, v)
             ELSE UNCHANGED <<iCalls, iLastCall, iPrev, iTracksFlag>>
  /\ UNCHANGED <<iPhase, iDeep, iIgnoring, iDepth, iInnerLeft, iBlockEnd,
                 iEscaped, iBlocks>>
  /\ UNCHANGED <<wVars, clockVars, tVars, dVars, sVars, hVars, qVars, mVars, shVars, gVars, vVars>>

\* a write to the `ignoring` signal: the effect re-runs if the value changed
\* and its last evaluation read the flag
WriteFlag(flag) ==
  /\ iIgnoring' = flag
  /\ IF flag # iIgnoring /\ iPhase = "armed" /\ iTracksFlag
     THEN RunIgnorableEffect(flag, iSrc)
     ELSE UNCHANGED <<iCalls, iLastCall, iTracksFlag, iPrev>>

\* part_003:34-37  ignoreUpdates(block) up to the call of block:
\* setIgnoring(true). The caller may be the block of an ignoreUpdates call
\* that is still running.
IgnoreUpdatesEnter ==
  /\ iPhase \in {"queued", "armed"}
  /\ iDepth < MaxDepth
  /\ iBlocks < MaxOps
  /\ iBlocks' = iBlocks + 1
  /\ iDepth' = iDepth + 1
  /\ iInnerLeft' = FALSE
  /\ WriteFlag(TRUE)
  /\ iBlockSets' = IF iDepth = 0 THEN 0 ELSE iBlockSets
  /\ iBlockEnd' = "none" /\ iEscaped' = "none"
  /\ UNCHANGED <<iPhase, iDeep, iSrc, iSets>>
  /\ UNCHANGED <<wVars, clockVars, tVars, dVars, sVars, hVars, qVars, mVars, shVars, gVars, vVars>>

\* part_003:37-40  block returns or raises; the finally clause runs
IgnoreUpdatesLeave(blockEnd) ==
  /\ iDepth > 0
  /\ iDepth' = iDepth - 1
  /\ iInnerLeft' = (iDepth > 1)
  /\ iBlockEnd' = blockEnd
  /\ WriteFlag(FlagAfterBlock(blockEnd))
  /\ iEscaped' = Rethrown(blockEnd)
  /\ UNCHANGED <<iPhase, iDeep, iSrc, iSets, iBlocks, iBlockSets>>
  /\ UNCHANGED <<wVars, clockVars, tVars, dVars, sVars, hVars, qVars, mVars, shVars, gVars, vVars>>

InitIgnorable ==
  /\ iPhase = "none" /\ iDeep = FALSE /\ iSrc \in Values /\ iPrev = Undef
  /\ iIgnoring = FALSE /\ iTracksFlag = FALSE
  /\ iCalls = 0 /\ iLastCall = <<Undef, Undef>>
  /\ iDepth = 0 /\ iInnerLeft = FALSE
  /\ iBlockEnd = "none" /\ iEscaped = "none"
  /\ iSets = 0 /\ iBlocks = 0 /\ iBlockSets = 0
  /\ WatchIdle /\ ClockIdle /\ ThrottleIdle /\ DebounceIdle /\ StorageIdle /\ QueryIdle
  /\ HistoryIdle /\ MutationIdle /\ SharedHookIdle /\ GlobalStateIdle /\ ToValueIdle

NextIgnorable ==
  \/ \E immediate \in BOOLEAN, deep \in BOOLEAN, deferred \in BOOLEAN :
       WatchIgnorable(immediate, deep, deferred)
  \/ IgnorableFlush
  \/ \E v \in Values : IgnorableSetSource(v)
  \/ IgnoreUpdatesEnter
  \/ \E blockEnd \in {"returned", "raised"} : IgnoreUpdatesLeave(blockEnd)

SpecIgnorable == InitIgnorable /\ [][NextIgnorable]_vars

C15_BlockChangesNeverReported ==
  [][/\ (iDepth > 0 /\ iBlockSets' >= 1) => iCalls' = iCalls
     /\ (/\ iPhase = "armed" /\ iDepth = 0 /\ iDepth' = 0
         /\ iBlockSets >= 1 /\ iSets' = iSets + 1
         /\ Differs(iDeep, iSrc, iSrc'))
          => (iCalls' = iCalls + 1 /\ iLastCall' = <<iSrc', iSrc>>)]_vars

\* ================================================================ useQuery
\* Strings are sequences of characters, so that String(), join() and
\* startsWith() are computed as the code computes them.
Str(c) == <<"str", c>>
Null == <<"null", <<>>>>
\* query.ts:178-184  QueryKey: a scalar or an array of scalars
Scalar(e) == [isArray |-> FALSE, items |-> <<e>>]
Array(es) == [isArray |-> TRUE, items |-> es]
QueryKeys ==
  {Scalar(Str(<<"a">>)), Scalar(Str(<<"a", "b">>)),
   Array(<<Str(<<"a">>), Str(<<"b">>)>>), Array(<<Str(<<"a">>), Null>>)}

ArrayKeys == {k \in QueryKeys : k.isArray}

\* query.ts:292  String(value) of a scalar
String(e) == IF e = Null THEN <<"n", "u", "l", "l">> ELSE e[2]
\* query.ts:293  the text join() gives an element: null is the empty string
JoinText(e) == IF e = Null THEN <<>> ELSE e[2]
Separator == <<" ", "→", " ">>
RECURSIVE Join(_)
Join(es) ==
  IF es = <<>> THEN <<>>
  ELSE IF Len(es) = 1 THEN JoinText(es[1])
  ELSE JoinText(es[1]) \o Separator \o Join(Tail(es))

\* query.ts:290-294  serializeKey
serializeKey(key) ==
  IF ~key.isArray THEN String(key.items[1]) ELSE Join(key.items)

\* the invalidated key must equal the current key
startsWith_Exact(str, prefix) == str = prefix
\* query.ts:156  currentKey.startsWith(invalidatedKey)
startsWith(str, prefix) ==
  Len(prefix) <= Len(str) /\ SubSeq(str, 1, Len(prefix)) = prefix

KeyStrs == {serializeKey(k) : k \in QueryKeys}

\* query.ts:193-197  QueryData; "none" stands for an absent property. `err`
\* is the property the loading write names (query.ts:127).
Fields == {"status", "data", "error", "err"}
NoRecord == [f \in Fields |-> "none"]
Data == {"d1", "d2"}
Errors == {"e1"}
Enabled == {"unset", "true", "false"}
Insts == {"A", "B"}

\* a write that replaces the record instead of merging into it
mergeStoreNode_Replace(record, patch) ==
  [f \in Fields |-> IF f \in DOMAIN patch THEN patch[f] ELSE "none"]
\* solid-js/store setStore(key, object): the object is merged into the
\* record under the key, properties it does not name are kept (a record that
\* does not exist yet starts without properties).
mergeStoreNode(record, patch) ==
  [f \in Fields |-> IF f \in DOMAIN patch THEN patch[f] ELSE record[f]]

\* query.ts:124-128  (existing) => ({ ...existing, status: "loading",
\* err: undefined })
LoadingPatch(existing) ==
  [f \in Fields |-> IF f = "status" THEN "loading"
                    ELSE IF f = "err" THEN "none"
                    ELSE existing[f]]

\* the success write without the data
SuccessPatch_NoData(data) == [status |-> "success"]
\* query.ts:132  { status: "success", data }
SuccessPatch(data) == [status |-> "success", data |-> data]
\* query.ts:137  { status: "error", error }
ErrorPatch(error) == [status |-> "error", error |-> error]

\* the cache answers whenever a record exists
IsCacheHit_Always(useCache, cached) == cached.status # "none"
\* the cache answers only once the record holds the result of a fetch
IsCacheHit_SettledOnly(useCache, cached) ==
  useCache /\ cached.status \in {"success", "error"}
\* query.ts:116-118  fetchOptions.useCache and cached != null
IsCacheHit(useCache, cached) == useCache /\ cached.status # "none"

NotSettled ==
  [id |-> 0, via |-> "none", overtaken |-> FALSE,
   result |-> "none", value |-> "none",
   callback |-> [kind |-> "none", value |-> "none", seen |-> NoRecord]]

\* The part of the state one call of fetch reads and writes.
QueryState ==
  [store |-> qStore, flights |-> qFlights, next |-> qNext, seq |-> qSeq,
   invoked |-> qInvoked, issued |-> qIssued, bypassed |-> qBypassed]

\* fetch goes on although `enabled` is false
IsDisabled_Never(enabled) == FALSE
\* query.ts:113  toValue(options?.enabled) === false
IsDisabled(enabled) == enabled = "false"

\* query.ts:112-142  fetch(fetchOptions) of instance i up to the call of
\* query(), with `key` and `enabled` resolving to inst.key and inst.enabled.
\* The fetches of one key are numbered in the order of their invocations.
FetchOf(st, inst, i, useCache, via) ==
  IF IsDisabled(inst.enabled) THEN st
  ELSE LET keyStr == serializeKey(inst.key)
           cached == st.store[keyStr]
           counted == [st EXCEPT !.issued = IF useCache THEN @ ELSE @ + 1]
           written == mergeStoreNode(cached, LoadingPatch(cached))
       IN IF IsCacheHit(useCache, cached) THEN counted
          ELSE [counted EXCEPT
                  !.store = [@ EXCEPT ![keyStr] = written],
                  !.flights = @ \cup
                     {[id |-> st.seq[keyStr] + 1, inst |-> i, key |-> keyStr,
                       via |-> via]},
                  !.next = @ + 1,
                  !.seq = [@ EXCEPT ![keyStr] = @ + 1],
                  !.bypassed = IF useCache THEN @ ELSE @ + 1,
                  !.invoked = [@ EXCEPT ![i] = @ + 1]]

\* fetch of instance i as the instance is now
Fetch(st, i, useCache, via) == FetchOf(st, qInst[i], i, useCache, via)

\* query.ts:112-130  the promise fetch returns, as far as it is settled when
\* fetch returns: resolved with undefined when disabled, rejected with the
\* error of the cached record or resolved with its data on a cache hit,
\* pending on the async function otherwise
FetchReturns(store, inst, useCache) ==
  LET cached == store[serializeKey(inst.key)]
  IN IF IsDisabled(inst.enabled) THEN [kind |-> "resolved", value |-> "none"]
     ELSE IF IsCacheHit(useCache, cached)
     THEN IF cached.error # "none"
          THEN [kind |-> "rejected", value |-> cached.error]
          ELSE [kind |-> "resolved", value |-> cached.data]
     ELSE [kind |-> "pending", value |-> "none"]

\* the variables fetch writes
Fetched(st) ==
  /\ st.next <= MaxFetches + 1
  /\ qStore' = st.store /\ qFlights' = st.flights /\ qNext' = st.next
  /\ qSeq' = st.seq /\ qInvoked' = st.invoked /\ qIssued' = st.issued
  /\ qBypassed' = st.bypassed

\* query.ts:105-175  useQuery(key, query, options) called by a component:
\* the watchers and mount hooks are queued, the handle is returned.
UseQuery(i) ==
  /\ qInst[i].state = "none"
  /\ qInst' = [qInst EXCEPT ![i].state = "created"]
  /\ UNCHANGED <<qStore, qListeners, qFlights, qNext, qSeq, qInvoked, qIssued,
                 qBypassed, qBypassDone, qLastSettled, qLastGood, qCallbacks>>
  /\ UNCHANGED <<wVars, clockVars, tVars, dVars, sVars, hVars, iVars, mVars, shVars, gVars, vVars>>

\* The component is mounted: the queued effects run in the order of their
\* creation: the watcher of the key (query.ts:145-147; its first evaluation
\* calls back, the previous value being undefined), the watcher of `enabled`
\* (150; it calls back on its first evaluation when `enabled` is given), the
\* registration of the invalidation listener (158-160) and the initial query
\* (166).
Mount(i) ==
  /\ qInst[i].state = "created"
  /\ LET keyWatch == Fetch(QueryState, i, TRUE, "mount")
         enabledWatch ==
           IF Differs(FALSE, Undef,
                      IF qInst[i].enabled = "unset" THEN Undef ELSE <<0, 1>>)
           THEN Fetch(keyWatch, i, TRUE, "mount")
           ELSE keyWatch
     IN Fetched(Fetch(enabledWatch, i, TRUE, "mount"))
  /\ qListeners' = Append(qListeners, i)
  /\ qInst' = [qInst EXCEPT ![i].state = "mounted"]
  /\ UNCHANGED <<qBypassDone, qLastSettled, qLastGood, qCallbacks>>
  /\ UNCHANGED <<wVars, clockVars, tVars, dVars, sVars, hVars, iVars, mVars, shVars, gVars, vVars>>

\* query.ts:172  refetch()
Refetch(i) ==
  /\ qInst[i].state \in {"created", "mounted"}
  /\ Fetched(Fetch(QueryState, i, FALSE, "refetch"))
  /\ UNCHANGED <<qInst, qListeners, qBypassDone, qLastSettled, qLastGood,
                 qCallbacks>>
  /\ UNCHANGED <<wVars, clockVars, tVars, dVars, sVars, hVars, iVars, mVars, shVars, gVars, vVars>>

\* query.ts:153-157  onInvalidationMessage of each listener, in the order of
\* registration
RECURSIVE Dispatch(_, _, _)
Dispatch(st, listeners, invalidatedKey) ==
  IF listeners = <<>> THEN st
  ELSE LET i == Head(listeners)
           currentKey == serializeKey(qInst[i].key)
           after == IF startsWith(currentKey, invalidatedKey)
                    THEN Fetch(st, i, FALSE, "invalidate")
                    ELSE st
       IN Dispatch(after, Tail(listeners), invalidatedKey)

\* query.ts:63-67  invalidateQuery(key)
invalidateQuery(st, key) == Dispatch(st, qListeners, serializeKey(key))

\* query.ts:73-75  invalidateQueries(keys)
RECURSIVE invalidateQueries(_, _)
invalidateQueries(st, keys) ==
  IF keys = <<>> THEN st
  ELSE invalidateQueries(invalidateQuery(st, Head(keys)), Tail(keys))

\* a call of client.invalidateQuery(key)
InvalidateQuery(key) ==
  /\ Fetched(invalidateQuery(QueryState, key))
  /\ UNCHANGED <<qInst, qListeners, qBypassDone, qLastSettled, qLastGood,
                 qCallbacks>>
  /\ UNCHANGED <<wVars, clockVars, tVars, dVars, sVars, hVars, iVars, mVars, shVars, gVars, vVars>>

\* a call of client.invalidateQueries(keys)
InvalidateQueries(keys) ==
  /\ Fetched(invalidateQueries(QueryState, keys))
  /\ UNCHANGED <<qInst, qListeners, qBypassDone, qLastSettled, qLastGood,
                 qCallbacks>>
  /\ UNCHANGED <<wVars, clockVars, tVars, dVars, sVars, hVars, iVars, mVars, shVars, gVars, vVars>>

\* the bookkeeping of a settled fetch: `callback` is the invocation of
\* onSuccess / onError it made, with the record as the callback saw it;
\* `overtaken`: a cache-bypassing fetch of the key invoked after this one
\* settled before it
Settled(f, result, value, callback) ==
  /\ qFlights' = qFlights \ {f}
  /\ qLastSettled' = [qLastSettled EXCEPT ![f.key] =
                        [id |-> f.id, via |-> f.via,
                         overtaken |-> f.id < qBypassDone[f.key],
                         result |-> result, value |-> value,
                         callback |-> callback]]
  /\ qBypassDone' = IF f.via # "mount" /\ f.id > qBypassDone[f.key]
                    THEN [qBypassDone EXCEPT ![f.key] = f.id]
                    ELSE qBypassDone
  /\ qCallbacks' = qCallbacks + 1
  /\ UNCHANGED <<qInst, qListeners, qNext, qSeq, qInvoked, qIssued, qBypassed>>

\* query.ts:131-135  the promise of query() is fulfilled with data: the
\* record is written, onSuccess is called, the promise that fetch returned
\* is fulfilled with data.
Resolve(f, data) ==
  /\ f \in qFlights
  /\ qStore' = [qStore EXCEPT ![f.key] = mergeStoreNode(@, SuccessPatch(data))]
  /\ qLastGood' = [qLastGood EXCEPT ![f.key] = data]
  /\ Settled(f, "fulfilled", data,
             [kind |-> "onSuccess", value |-> data, seen |-> qStore'[f.key]])
  /\ UNCHANGED <<wVars, clockVars, tVars, dVars, sVars, hVars, iVars, mVars, shVars, gVars, vVars>>

\* query.ts:136-140  the promise of query() is rejected with error
Reject(f, error) ==
  /\ f \in qFlights
  /\ qStore' = [qStore EXCEPT ![f.key] = mergeStoreNode(@, ErrorPatch(error))]
  /\ UNCHANGED qLastGood
  /\ Settled(f, "rejected", error,
             [kind |-> "onError", value |-> error, seen |-> qStore'[f.key]])
  /\ UNCHANGED <<wVars, clockVars, tVars, dVars, sVars, hVars, iVars, mVars, shVars, gVars, vVars>>

\* query.ts:60-61  a fresh client; the components that will call useQuery:
\* A without `enabled` or with enabled: false, B with enabled: true and an
\* array for its key
InitQuery ==
  /\ qStore = [k \in KeyStrs |-> NoRecord]
  /\ qInst \in [Insts -> [key : QueryKeys, enabled : Enabled, state : {"none"}]]
  /\ qInst["A"].enabled # "true"
  /\ qInst["B"].enabled = "true" /\ qInst["B"].key \in ArrayKeys
  /\ qListeners = <<>> /\ qFlights = {} /\ qNext = 1
  /\ qSeq = [k \in KeyStrs |-> 0]
  /\ qInvoked = [i \in Insts |-> 0] /\ qIssued = 0 /\ qBypassed = 0
  /\ qBypassDone = [k \in KeyStrs |-> 0] /\ qCallbacks = 0
  /\ qLastSettled = [k \in KeyStrs |-> NotSettled]
  /\ qLastGood = [k \in KeyStrs |-> "none"]
  /\ WatchIdle /\ ClockIdle /\ ThrottleIdle /\ DebounceIdle /\ StorageIdle
  /\ HistoryIdle /\ IgnorableIdle /\ MutationIdle /\ SharedHookIdle /\ GlobalStateIdle /\ ToValueIdle

NextQuery ==
  \/ \E i \in Insts : UseQuery(i)
  \/ \E i \in Insts : Mount(i)
  \/ \E i \in Insts : Refetch(i)
  \/ \E key \in QueryKeys : InvalidateQuery(key)
  \/ \E k1 \in QueryKeys, k2 \in ArrayKeys : InvalidateQueries(<<k1, k2>>)
  \/ \E f \in qFlights, data \in Data : Resolve(f, data)
  \/ \E f \in qFlights, error \in Errors : Reject(f, error)

SpecQuery == InitQuery /\ [][NextQuery]_vars

\* the fetches of key k whose async function has not settled
FlightsOf(k) == {f \in qFlights : f.key = k}

\* C16: a fetch that invokes the async function leaves the shared record of
\* its key with status "loading" and its error cleared before the async
\* function runs, whatever the record held before: while a fetch is in flight
\* and the record is "loading", error() is undefined.
C16_LoadingClearsError ==
  \A f \in qFlights :
     qStore[f.key].status = "loading" => qStore[f.key].error = "none"

\* C17: when the async function of a fetch resolves with d, the record of the
\* key is written with status "success" and data d, onSuccess is invoked once
\* with d and sees the record as written, and the promise of the fetch is
\* fulfilled with d. (Every settled fetch made exactly one callback.)
C17_ResolveWritesSuccess ==
  /\ qCallbacks = qNext - 1 - Cardinality(qFlights)
  /\ \A k \in KeyStrs :
       LET s == qLastSettled[k]
       IN /\ s.result = "fulfilled" =>
               /\ s.value \in Data
               /\ s.callback.kind = "onSuccess"
               /\ s.callback.value = s.value
               /\ s.callback.seen.status = "success"
               /\ s.callback.seen.data = s.value
          /\ qStore[k].status = "success" =>
               (s.result = "fulfilled" /\ qStore[k].data = s.value)

\* a fetch resolved after an earlier fetch of the key had failed
C17_Witness ==
  \E k \in KeyStrs :
     /\ qLastSettled[k].result = "fulfilled"
     /\ qStore[k].status = "success"
     /\ qStore[k].data = qLastSettled[k].value
     /\ qStore[k].error \in Errors

\* C18: when the async function of a fetch rejects with e, the record of the
\* key is written with status "error" and error e while its data stays the
\* data of the last fulfilled fetch, onError is invoked once with e and sees
\* the record as written, and the promise of the fetch is rejected with e.
C18_RejectKeepsStaleData ==
  \A k \in KeyStrs :
     LET s == qLastSettled[k]
     IN /\ s.result = "rejected" =>
             /\ s.value \in Errors
             /\ s.callback.kind = "onError"
             /\ s.callback.value = s.value
             /\ s.callback.seen.status = "error"
             /\ s.callback.seen.error = s.value
             /\ s.callback.seen.data = qLastGood[k]
        /\ qStore[k].status = "error" =>
             /\ s.result = "rejected"
             /\ qStore[k].error = s.value
             /\ qStore[k].data = qLastGood[k]

\* a fetch failed after an earlier fetch of the key had delivered data
C18_Witness ==
  \E k \in KeyStrs :
     /\ qLastSettled[k].result = "rejected"
     /\ qStore[k].status = "error"
     /\ qLastGood[k] \in Data
     /\ qStore[k].data = qLastGood[k]

\* p is a prefix of str
IsPrefix(p, str) == \E n \in 0..Len(str) : p = SubSeq(str, 1, n)
\* the canonical form of P is a prefix of the canonical form of the key of i
Reaches(P, i) == IsPrefix(serializeKey(P), serializeKey(qInst[i].key))

\* C19: in every state, invalidateQuery(P) makes every mounted instance whose
\* canonical key has canonicalize(P) as a prefix invoke its async function
\* once more, whether or not a record exists; a mounted instance whose key
\* does not have that prefix performs no fetch and its record is unchanged.
\* invalidateQueries(<<P1, P2>>) is invalidateQuery(P1), then
\* invalidateQuery(P2).
C19_PrefixInvalidationRefetches ==
  /\ \A P \in QueryKeys :
       LET st == invalidateQuery(QueryState, P)
       IN \A i \in Insts : qInst[i].state = "mounted" =>
             LET k == serializeKey(qInst[i].key)
             IN IF Reaches(P, i)
                THEN /\ st.invoked[i] = qInvoked[i] + 1
                     /\ st.store[k].status = "loading"
                ELSE /\ st.invoked[i] = qInvoked[i]
                     /\ st.store[k] = qStore[k]
  /\ \A P1 \in QueryKeys, P2 \in ArrayKeys :
       invalidateQueries(QueryState, <<P1, P2>>)
         = invalidateQuery(invalidateQuery(QueryState, P1), P2)

\* C19 as the code has it: the same for the mounted instances whose `enabled`
\* option is not false; a mounted instance whose `enabled` is false performs
\* no fetch, whatever key is invalidated.
C19_PrefixInvalidationRefetchesEnabled ==
  /\ \A P \in QueryKeys :
       LET st == invalidateQuery(QueryState, P)
       IN \A i \in Insts : qInst[i].state = "mounted" =>
             LET k == serializeKey(qInst[i].key)
             IN IF qInst[i].enabled = "false"
                THEN st.invoked[i] = qInvoked[i]
                ELSE IF Reaches(P, i)
                THEN /\ st.invoked[i] = qInvoked[i] + 1
                     /\ st.store[k].status = "loading"
                ELSE /\ st.invoked[i] = qInvoked[i]
                     /\ st.store[k] = qStore[k]
  /\ \A P1 \in QueryKeys, P2 \in ArrayKeys :
       invalidateQueries(QueryState, <<P1, P2>>)
         = invalidateQuery(invalidateQuery(QueryState, P1), P2)

\* an invalidation made a mounted instance fetch again although the record
\* of its key held the data of a settled fetch
C19_Witness ==
  \E f \in qFlights :
     /\ f.via = "invalidate"
     /\ qInst[f.inst].state = "mounted"
     /\ qLastSettled[f.key].id # 0
     /\ qStore[f.key].status = "loading"
     /\ qStore[f.key].data \in Data

\* C20: overlapping cache-bypassing fetches of one key all invoke the async
\* function, none is dropped, and once none is in flight the status and the
\* data or error of the shared record are those written by the fetch that
\* settled last, whichever was issued first.
C20_LastCompletionWins ==
  /\ qBypassed = qIssued
  /\ qNext - 1 = Cardinality(qFlights) + qCallbacks
  /\ \A k \in KeyStrs :
       LET s == qLastSettled[k]
       IN (FlightsOf(k) = {} /\ s.id # 0) =>
             /\ s.result = "fulfilled" =>
                  (qStore[k].status = "success" /\ qStore[k].data = s.value)
             /\ s.result = "rejected" =>
                  (qStore[k].status = "error" /\ qStore[k].error = s.value)

\* two cache-bypassing fetches of one key overlapped and the one issued first
\* settled last
C20_Witness ==
  \E k \in KeyStrs :
     /\ FlightsOf(k) = {}
     /\ qLastSettled[k].via # "mount"
     /\ qLastSettled[k].overtaken
     /\ qBypassed >= 2

\* ================================================================ useMutation
Muts == {"M1", "M2"}
\* query.ts:272  options.invalidate of the two instances: M1 lists keys, M2
\* has no list
InvalidateLists ==
  {<<Scalar(Str(<<"a">>)), Array(<<Str(<<"a">>), Str(<<"b">>)>>)>>,
   <<Array(<<Str(<<"a">>), Str(<<"b">>)>>), Array(<<Str(<<"a">>), Null>>)>>,
   <<Array(<<Str(<<"a">>), Null>>)>>}

NoCallback == [kind |-> "none", value |-> "none", status |-> "none",
               fetches |-> 0]
NoOutcome == [kind |-> "none", value |-> "none"]
NoMutation == [inst |-> "none", result |-> "none", value |-> "none",
               callback |-> NoCallback, outcome |-> NoOutcome,
               fetchesBefore |-> 0]

\* What one settlement handler of mutate reads and writes: the signals of
\* its instance, the client, and what it hands to its callback and caller.
MutationContext(m) ==
  [status |-> mInst[m].status, data |-> mInst[m].data,
   error |-> mInst[m].error, invalidate |-> mInst[m].invalidate,
   q |-> QueryState, callback |-> NoCallback, outcome |-> NoOutcome]

\* the fulfilment handler with onSuccess called before the invalidation
SuccessSteps_CallbackFirst(invalidate, res) ==
  <<<<"setStatus", "success">>, <<"setData", res>>, <<"onSuccess", res>>>>
  \o (IF Len(invalidate) > 0 THEN <<<<"invalidateQueries", "">>>> ELSE <<>>)
  \o <<<<"return", res>>>>
\* query.ts:238-246  the statements of the fulfilment handler, in order
SuccessSteps(invalidate, res) ==
  <<<<"setStatus", "success">>, <<"setData", res>>>>
  \o (IF Len(invalidate) > 0 THEN <<<<"invalidateQueries", "">>>> ELSE <<>>)
  \o <<<<"onSuccess", res>>, <<"return", res>>>>

\* query.ts:247-252  the statements of the rejection handler, in order
ErrorSteps(invalidate, err) ==
  <<<<"setStatus", "error">>, <<"setError", err>>, <<"onError", err>>,
    <<"throw", err>>>>

\* query.ts:238-252  the statements run one after the other; a callback sees
\* the status and the fetches started up to its invocation
RECURSIVE RunSteps(_, _)
RunSteps(steps, c) ==
  IF steps = <<>> THEN c
  ELSE LET op == Head(steps)[1]
           arg == Head(steps)[2]
           seen == [kind |-> op, value |-> arg, status |-> c.status,
                    fetches |-> c.q.next]
           after ==
             CASE op = "setStatus" -> [c EXCEPT !.status = arg]
               [] op = "setData" -> [c EXCEPT !.data = arg]
               [] op = "setError" -> [c EXCEPT !.error = arg]
               [] op = "invalidateQueries" ->
                    [c EXCEPT !.q = invalidateQueries(@, c.invalidate)]
               [] op \in {"onSuccess", "onError"} ->
                    [c EXCEPT !.callback = seen]
               [] op = "return" ->
                    [c EXCEPT !.outcome = [kind |-> "returned", value |-> arg]]
               [] op = "throw" ->
                    [c EXCEPT !.outcome = [kind |-> "thrown", value |-> arg]]
       IN RunSteps(Tail(steps), after)

\* query.ts:238-246  the promise of mutate() is fulfilled with res
Fulfilled(m, res) ==
  RunSteps(SuccessSteps(mInst[m].invalidate, res), MutationContext(m))
\* query.ts:247-252  the promise of mutate() is rejected with err
Rejected(m, err) ==
  RunSteps(ErrorSteps(mInst[m].invalidate, err), MutationContext(m))

\* query.ts:234-237  a call of the returned mutate(...args): the instance is
\* "loading", its error is reset, its data is kept
Mutate(m) ==
  /\ mNext <= MaxMutates
  /\ mInst' = [mInst EXCEPT ![m].status = "loading", ![m].error = "none",
                            ![m].calls = @ + 1]
  /\ mFlights' = mFlights \cup {[id |-> mNext, inst |-> m]}
  /\ mNext' = mNext + 1
  /\ UNCHANGED mLast
  /\ UNCHANGED <<wVars, clockVars, tVars, dVars, sVars, hVars, iVars, qVars, shVars, gVars, vVars>>

\* the variables a settlement handler writes
MutationSettled(f, result, value, c) ==
  /\ f \in mFlights
  /\ mInst' = [mInst EXCEPT ![f.inst].status = c.status,
                            ![f.inst].data = c.data,
                            ![f.inst].error = c.error]
  /\ Fetched(c.q)
  /\ mFlights' = mFlights \ {f}
  /\ mLast' = [inst |-> f.inst, result |-> result, value |-> value,
               callback |-> c.callback, outcome |-> c.outcome,
               fetchesBefore |-> qNext]
  /\ UNCHANGED mNext
  /\ UNCHANGED <<qInst, qListeners, qBypassDone, qLastSettled, qLastGood,
                 qCallbacks>>
  /\ UNCHANGED <<wVars, clockVars, tVars, dVars, sVars, hVars, iVars, shVars, gVars, vVars>>

MutateResolve(f, res) == MutationSettled(f, "fulfilled", res, Fulfilled(f.inst, res))
MutateReject(f, err) == MutationSettled(f, "rejected", err, Rejected(f.inst, err))

\* query.ts:230-232  the signals of fresh useMutation instances, beside two
\* components that will call useQuery on the same client
InitMutation ==
  /\ mInst \in [Muts -> [status : {"idle"}, data : {"none"}, error : {"none"},
                         calls : {0},
                         invalidate : InvalidateLists \cup {<<>>}]]
  /\ mInst["M1"].invalidate # <<>> /\ mInst["M2"].invalidate = <<>>
  /\ mFlights = {} /\ mNext = 1 /\ mLast = NoMutation
  /\ qStore = [k \in KeyStrs |-> NoRecord]
  /\ qInst \in [Insts -> [key : QueryKeys, enabled : Enabled, state : {"none"}]]
  /\ qInst["A"].enabled = "unset"
  /\ qInst["B"].enabled = "true"
  /\ qInst["B"].key = Array(<<Str(<<"a">>), Str(<<"b">>)>>)
  /\ qListeners = <<>> /\ qFlights = {} /\ qNext = 1
  /\ qSeq = [k \in KeyStrs |-> 0]
  /\ qInvoked = [i \in Insts |-> 0] /\ qIssued = 0 /\ qBypassed = 0
  /\ qBypassDone = [k \in KeyStrs |-> 0] /\ qCallbacks = 0
  /\ qLastSettled = [k \in KeyStrs |-> NotSettled]
  /\ qLastGood = [k \in KeyStrs |-> "none"]
  /\ WatchIdle /\ ClockIdle /\ ThrottleIdle /\ DebounceIdle /\ StorageIdle
  /\ HistoryIdle /\ IgnorableIdle /\ SharedHookIdle /\ GlobalStateIdle /\ ToValueIdle

NextMutation ==
  \/ \E i \in Insts : UseQuery(i)
  \/ \E i \in Insts : Mount(i)
  \/ \E m \in Muts : Mutate(m)
  \/ \E f \in mFlights, res \in Data : MutateResolve(f, res)
  \/ \E f \in mFlights, err \in Errors : MutateReject(f, err)

SpecMutation == InitMutation /\ [][NextMutation]_vars

\* the client after invalidateQuery was called for each key of the list, one
\* after the other in list order (lists of up to two keys)
InvalidatedInOrder(list) ==
  IF Len(list) = 0 THEN QueryState
  ELSE IF Len(list) = 1 THEN invalidateQuery(QueryState, list[1])
  ELSE invalidateQuery(invalidateQuery(QueryState, list[1]), list[2])

\* C21: when the promise of a mutate call is fulfilled, the instance status
\* is "success" and every key of options.invalidate is invalidated in list
\* order before onSuccess is invoked (the callback sees the status and the
\* fetches the invalidation started), and the result is returned; when it is
\* rejected nothing is invalidated, the status is "error" with the raised
\* value, onError is invoked and the error is thrown to the caller. The
\* signals belong to the instance (an instance never called stays idle) and
\* the shared store is written by fetches only.
C21_MutationSettlement ==
  /\ \A f \in mFlights :
       LET m == f.inst
           expected == InvalidatedInOrder(mInst[m].invalidate)
       IN /\ \A res \in Data :
               LET c == Fulfilled(m, res)
               IN /\ c.status = "success" /\ c.data = res
                  /\ c.q = expected
                  /\ c.callback = [kind |-> "onSuccess", value |-> res,
                                   status |-> "success",
                                   fetches |-> expected.next]
                  /\ c.outcome = [kind |-> "returned", value |-> res]
                  /\ \A k \in KeyStrs :
                       c.q.seq[k] = qSeq[k] => c.q.store[k] = qStore[k]
          /\ \A err \in Errors :
               LET c == Rejected(m, err)
               IN /\ c.status = "error" /\ c.error = err
                  /\ c.q = QueryState
                  /\ c.callback = [kind |-> "onError", value |-> err,
                                   status |-> "error", fetches |-> qNext]
                  /\ c.outcome = [kind |-> "thrown", value |-> err]
  /\ mLast.result = "fulfilled" =>
       /\ mLast.callback.kind = "onSuccess"
       /\ mLast.callback.value = mLast.value
       /\ mLast.callback.status = "success"
       /\ mLast.outcome = [kind |-> "returned", value |-> mLast.value]
       /\ mInst[mLast.inst].data = mLast.value
       /\ (mInst[mLast.inst].invalidate = <<>>
             => mLast.callback.fetches = mLast.fetchesBefore)
  /\ mLast.result = "rejected" =>
       /\ mLast.callback.kind = "onError"
       /\ mLast.callback.value = mLast.value
       /\ mLast.callback.status = "error"
       /\ mLast.callback.fetches = mLast.fetchesBefore
       /\ mLast.outcome = [kind |-> "thrown", value |-> mLast.value]
  /\ \A m \in Muts :
       mInst[m].calls = 0 =>
         (mInst[m].status = "idle" /\ mInst[m].data = "none"
            /\ mInst[m].error = "none")
  /\ \A k \in KeyStrs : qSeq[k] = 0 => qStore[k] = NoRecord

\* a mutate call was fulfilled and its invalidation made a mounted query
\* fetch again before onSuccess ran; a later call of the instance was rejected
C21_Witness ==
  /\ mLast.result = "rejected"
  /\ mInst[mLast.inst].status = "error"
  /\ mInst[mLast.inst].error = mLast.value
  /\ mInst[mLast.inst].data \in Data
  /\ \E f \in qFlights : f.via = "invalidate"

\* ================================================================ createSharedHook
HookArgs == 1..2
\* watch.ts:85  hook(...args): the result of a run is a fresh value made from
\* the arguments of that run
Hook(arg, run) == <<arg, run>>

\* the wrapped hook is run for every subscriber
NeedsScope_Always(dispose) == TRUE
\* watch.ts:82  if (!dispose)
NeedsScope(dispose) == dispose = 0

\* the scope is disposed one subscriber too early
ReachedZero_Early(subscribers) == subscribers <= 1
\* watch.ts:72  if (subscribers <= 0)
ReachedZero(subscribers) == subscribers <= 0

\* watch.ts:79-91  a call of the shared hook. `owned`: the caller runs under
\* an owner (a component or a root), so onCleanup registers unsubscribe with
\* it; without an owner nothing is registered.
Subscribe(arg, owned) ==
  /\ shNext <= MaxSubs
  /\ shSubscribers' = shSubscribers + 1
  /\ IF NeedsScope(shDispose)
     THEN /\ shRuns' = shRuns + 1
          /\ shDispose' = shRuns + 1
          /\ shState' = Hook(arg, shRuns + 1)
     ELSE UNCHANGED <<shRuns, shDispose, shState>>
  /\ shLive' = shLive \cup {[id |-> shNext, arg |-> arg, owned |-> owned,
                             got |-> shState']}
  /\ shNext' = shNext + 1
  /\ shPeriodRuns' = (IF shLive = {} THEN 0 ELSE shPeriodRuns)
                       + (shRuns' - shRuns)
  /\ shFirst' = IF shLive = {} THEN shState' ELSE shFirst
  /\ UNCHANGED shDisposed
  /\ UNCHANGED <<wVars, clockVars, tVars, dVars, sVars, hVars, iVars, qVars, mVars, gVars, vVars>>

\* watch.ts:70-77  the owner of subscriber s is disposed and runs unsubscribe
Teardown(s) ==
  /\ s \in shLive /\ s.owned
  /\ shSubscribers' = shSubscribers - 1
  /\ IF ReachedZero(shSubscribers')
     THEN /\ shDisposed' = shDisposed \cup ({shDispose} \ {0})
          /\ shState' = NoResult
          /\ shDispose' = 0
     ELSE UNCHANGED <<shDisposed, shState, shDispose>>
  /\ shLive' = shLive \ {s}
  /\ UNCHANGED <<shNext, shRuns, shPeriodRuns, shFirst>>
  /\ UNCHANGED <<wVars, clockVars, tVars, dVars, sVars, hVars, iVars, qVars, mVars, gVars, vVars>>

\* watch.ts:66-68
InitSharedHook ==
  /\ SharedHookIdle
  /\ WatchIdle /\ ClockIdle /\ ThrottleIdle /\ DebounceIdle /\ StorageIdle
  /\ HistoryIdle /\ IgnorableIdle /\ QueryIdle /\ MutationIdle /\ GlobalStateIdle /\ ToValueIdle

NextSharedHook ==
  \/ \E arg \in HookArgs, owned \in BOOLEAN : Subscribe(arg, owned)
  \/ \E s \in shLive : Teardown(s)

SpecSharedHook == InitSharedHook /\ [][NextSharedHook]_vars

\* C22: while at least one subscriber is live, the wrapped hook has run
\* exactly once since no subscriber was live, and every live subscriber holds
\* the result the first subscriber of that period received, whatever
\* arguments it passed itself.
C22_OneRunPerPeriod ==
  shLive # {} =>
    /\ shPeriodRuns = 1
    /\ shFirst # NoResult
    /\ shState = shFirst
    /\ \A s \in shLive : s.got = shFirst

\* two subscribers are live and the later one passed other arguments than the
\* ones the hook ran with
C22_Witness ==
  /\ Cardinality(shLive) >= 2
  /\ \E s \in shLive : s.arg # s.got[1] /\ s.got = shFirst

\* C23: the count equals the number of live subscribers and is never
\* negative; the scope is disposed and the result discarded exactly when no
\* subscriber is left, never while one is live, so the scopes disposed are
\* all the scopes created but the current one; the scope in use is always the
\* newest, the one the first subscriber after the last disposal created.
C23_CountAndDisposal ==
  /\ shSubscribers = Cardinality(shLive)
  /\ shSubscribers >= 0
  /\ (shLive = {} <=> shDispose = 0)
  /\ (shLive = {} => shState = NoResult)
  /\ shDispose \in {0, shRuns}
  /\ shDisposed = (1..shRuns) \ {shDispose}

\* a teardown left other subscribers live, a later one disposed the scope and
\* the next subscriber made the hook run again
C23_Witness ==
  /\ shLive # {}
  /\ shRuns >= 2
  /\ shDisposed # {}
  /\ (shNext - 1) - Cardinality(shLive) > Cardinality(shDisposed)

\* ================================================================ createGlobalState
\* part_002:49  createRoot: the scope hangs under no owner, and the dispose
\* function createRoot hands over is dropped
ScopeOwner(caller) == 0

\* the factory is run by every call
IsInitialized_Never(initialized) == FALSE
\* part_002:48  if (!initialized)
IsInitialized(initialized) == initialized

\* part_002:47-55  a call of the global state function by a new component
GlobalState(arg) ==
  /\ gNext <= MaxSubs
  /\ IF ~IsInitialized(gInitialized)
     THEN /\ gRuns' = gRuns + 1
          /\ gScopeOwner' = ScopeOwner(gNext)
          /\ gState' = Hook(arg, gRuns + 1)
          /\ gInitialized' = TRUE
     ELSE UNCHANGED <<gRuns, gScopeOwner, gState, gInitialized>>
  /\ gCallers' = gCallers \cup {[id |-> gNext, arg |-> arg, got |-> gState',
                                 disposed |-> FALSE]}
  /\ gFirstArg' = IF gNext = 1 THEN arg ELSE gFirstArg
  /\ gNext' = gNext + 1
  /\ UNCHANGED gDisposed
  /\ UNCHANGED <<wVars, clockVars, tVars, dVars, sVars, hVars, iVars, qVars, mVars, shVars, vVars>>

\* the component that made call c is disposed, with every scope that hangs
\* under its owner
DisposeCaller(c) ==
  /\ c \in gCallers /\ ~c.disposed
  /\ gCallers' = (gCallers \ {c}) \cup {[c EXCEPT !.disposed = TRUE]}
  /\ gDisposed' = IF gScopeOwner = c.id THEN gDisposed \cup {gRuns}
                  ELSE gDisposed
  /\ UNCHANGED <<gInitialized, gState, gRuns, gScopeOwner, gNext, gFirstArg>>
  /\ UNCHANGED <<wVars, clockVars, tVars, dVars, sVars, hVars, iVars, qVars, mVars, shVars, vVars>>

\* part_002:44-45
InitGlobalState ==
  /\ GlobalStateIdle
  /\ WatchIdle /\ ClockIdle /\ ThrottleIdle /\ DebounceIdle /\ StorageIdle
  /\ HistoryIdle /\ IgnorableIdle /\ QueryIdle /\ MutationIdle
  /\ SharedHookIdle /\ ToValueIdle

NextGlobalState ==
  \/ \E arg \in HookArgs : GlobalState(arg)
  \/ \E c \in gCallers : DisposeCaller(c)

SpecGlobalState == InitGlobalState /\ [][NextGlobalState]_vars

\* C24: over any sequence of calls the factory has run exactly once, with the
\* arguments of the first call; every call returned the result of that run;
\* the scope of the run is not disposed, whichever callers are.
C24_Singleton ==
  /\ gRuns = IF gNext > 1 THEN 1 ELSE 0
  /\ \A c \in gCallers : c.got = Hook(gFirstArg, 1)
  /\ gNext > 1 => gState = Hook(gFirstArg, 1)
  /\ gDisposed = {}

\* several calls with different arguments were made and the component that
\* made the first call is disposed
C24_Witness ==
  /\ \E c \in gCallers : c.id = 1 /\ c.disposed
  /\ \E c \in gCallers : c.id > 1 /\ c.arg # gFirstArg /\ c.got = gState

\* ================================================================ toValue
\* The arguments of toValue: null, undefined, primitives, plain objects and
\* functions. `self` is the argument as a value; `arity` is the `length` of a
\* function; `marker` is the `__ref` property of an object or function
\* ("true": === true, "truthy": another truthy value); `payload` is what a
\* function returns when called without arguments, or the `value` property
\* of an object.
Markers == {"absent", "true", "truthy"}
Payloads == Values \cup {Undef}
Inputs ==
  {[type |-> "null", self |-> <<0, -1>>, arity |-> 0, marker |-> "absent",
    payload |-> Undef],
   [type |-> "undefined", self |-> Undef, arity |-> 0, marker |-> "absent",
    payload |-> Undef]}
  \cup [type : {"primitive"}, self : {<<0, c>> : c \in 1..MaxContent},
        arity : {0}, marker : {"absent"}, payload : {Undef}]
  \cup [type : {"object"}, self : {<<MaxObj + 1, 1>>}, arity : {0},
        marker : Markers, payload : Payloads]
  \cup [type : {"function"}, self : {<<MaxObj + 2, 1>>}, arity : 0..2,
        marker : Markers, payload : Payloads]

Returned(v) == [kind |-> "returned", value |-> v]
TypeError == [kind |-> "raised", value |-> Undef]

\* useStorage.ts:69-73, toValue.ts:12-14  isAccessor
isAccessor(value) == value.type = "function" /\ value.arity = 0

\* useStorage.ts:75-77  isRef: (value as any).__ref === true. Reading a
\* property of null or undefined raises a TypeError; a primitive has no such
\* property.
isRefRaises(value) == value.type \in {"null", "undefined"}
isRef(value) == value.marker = "true"

\* useStorage.ts:89-91  toValue over MaybeRefOrAccessor
toValue(value) ==
  IF isAccessor(value) THEN Returned(value.payload)
  ELSE IF isRefRaises(value) THEN TypeError
  ELSE IF isRef(value) THEN Returned(value.payload)
  ELSE Returned(value.self)

\* toValue.ts:24-26  toValue over MaybeAccessor
toValueOfMaybeAccessor(value) ==
  IF isAccessor(value) THEN Returned(value.payload) ELSE Returned(value.self)

\* a call toValue(vInput)
ToValue ==
  /\ vPhase = "given"
  /\ vPhase' = "applied"
  /\ vResult' = toValue(vInput)
  /\ vPlain' = toValueOfMaybeAccessor(vInput)
  /\ UNCHANGED vInput
  /\ UNCHANGED <<wVars, clockVars, tVars, dVars, sVars, hVars, iVars, qVars, mVars, shVars, gVars>>

InitToValue ==
  /\ vPhase = "given" /\ vInput \in Inputs
  /\ vResult = Returned(Undef) /\ vPlain = Returned(Undef)
  /\ WatchIdle /\ ClockIdle /\ ThrottleIdle /\ DebounceIdle /\ StorageIdle
  /\ HistoryIdle /\ IgnorableIdle /\ QueryIdle /\ MutationIdle
  /\ SharedHookIdle /\ GlobalStateIdle

NextToValue == ToValue

SpecToValue == InitToValue /\ [][NextToValue]_vars

\* what the classification rule gives for an argument
Classified(value) ==
  IF value.type = "function" /\ value.arity = 0 THEN Returned(value.payload)
  ELSE IF value.marker = "true" THEN Returned(value.payload)
  ELSE Returned(value.self)

\* C25: toValue raises for no argument, null and undefined included, and
\* returns the result of calling a function that declares no parameters,
\* otherwise the `value` of an argument that carries the reference-cell
\* marker, otherwise the argument itself.
C25_ToValueTotal ==
  vPhase = "applied" => vResult = Classified(vInput)

\* ================================================================ reference cells as watch sources
\* C26: the watcher of useRefHistory reads its source, a reference cell,
\* through toValue: no evaluation of its effect raises, and after an
\* assignment to ref.value the callback has recorded the new value, so the
\* current entry of the history is the value of the ref.
C26_RefSourceObserved ==
  /\ ~hWatcherErr
  /\ hPhase # "failed"
  /\ (hPhase = "settled" /\ hLast = "set") =>
       Dequal(At(hHistory, hIndex), hRef)

\* ================================================================ useQuery: key, enabled, teardown
\* The callbacks of the two watchers run inside their effects, so what fetch
\* reads there (`enabled`, the key, the record of the key) re-runs them when
\* it changes. A re-run after a change of the record is a cache-using fetch
\* for a key that has a record: it invokes nothing and writes nothing, so it
\* is no action of its own.
\* query.ts:150  the callback of the watcher of `enabled` fires on an
\* evaluation when `enabled` resolves to something other than undefined
\* (the previous value the watcher compares with stays undefined)
EnabledWatchFires(enabled) ==
  Differs(FALSE, Undef, IF enabled = "unset" THEN Undef ELSE <<0, 1>>)

\* query.ts:145-150  `key` of a mounted instance changed: the watcher of the
\* key re-runs and fetches from the cache; so does the watcher of `enabled`
\* if its callback read the key in its last evaluation, which it did when it
\* fired and `enabled` was not false
KeyChanged(st, inst, i) ==
  LET keyWatch == FetchOf(st, inst, i, TRUE, "key")
  IN IF EnabledWatchFires(inst.enabled) /\ ~IsDisabled(inst.enabled)
     THEN FetchOf(keyWatch, inst, i, TRUE, "key")
     ELSE keyWatch

\* query.ts:145-150  `enabled` of a mounted instance changed: both watchers
\* read it (the watcher of the key through fetch, line 113), both re-run and
\* fetch from the cache
EnabledChanged(st, inst, i) ==
  FetchOf(FetchOf(st, inst, i, TRUE, "enabled"), inst, i, TRUE, "enabled")

\* the signal behind the `key` accessor of instance i is set to k
SetKey(i, k) ==
  /\ qInst[i].state \in {"created", "mounted"}
  /\ k # qInst[i].key
  /\ LET inst == [qInst[i] EXCEPT !.key = k]
     IN /\ qInst' = [qInst EXCEPT ![i] = inst]
        /\ Fetched(IF qInst[i].state = "mounted"
                   THEN KeyChanged(QueryState, inst, i)
                   ELSE QueryState)
  /\ UNCHANGED <<qListeners, qBypassDone, qLastSettled, qLastGood, qCallbacks>>
  /\ UNCHANGED <<wVars, clockVars, tVars, dVars, sVars, hVars, iVars, mVars, shVars, gVars, vVars>>

\* the signal behind the `enabled` accessor of instance i is set to v.
\* `mark` remembers how often the instance had invoked its async function
\* when it became disabled.
SetEnabled(i, v) ==
  /\ qInst[i].state \in {"created", "mounted"}
  /\ qInst[i].enabled \in {"true", "false"}
  /\ v \in {"true", "false"} /\ v # qInst[i].enabled
  /\ LET inst == [qInst[i] EXCEPT !.enabled = v,
                                  !.mark = IF v = "false" THEN qInvoked[i]
                                           ELSE @]
     IN /\ qInst' = [qInst EXCEPT ![i] = inst]
        /\ Fetched(IF qInst[i].state = "mounted"
                   THEN EnabledChanged(QueryState, inst, i)
                   ELSE QueryState)
  /\ UNCHANGED <<qListeners, qBypassDone, qLastSettled, qLastGood, qCallbacks>>
  /\ UNCHANGED <<wVars, clockVars, tVars, dVars, sVars, hVars, iVars, mVars, shVars, gVars, vVars>>

\* the listener stays registered
RemoveListener_Forgotten(listeners, i) == listeners
\* query.ts:161-163  removeEventListener(INVALIDATE_EVENT, onInvalidationMessage)
RemoveListener(listeners, i) == SelectSeq(listeners, LAMBDA j : j # i)

\* The owner of instance i is disposed: its effects (watchers, mount hooks)
\* are dropped and its cleanup runs (query.ts:161-163). Promises are left
\* alone. `invokedAtDispose` and `pending` remember the invocations made and
\* the fetches in flight at this point.
Dispose(i) ==
  /\ qInst[i].state \in {"created", "mounted"}
  /\ qListeners' = RemoveListener(qListeners, i)
  /\ qInst' = [qInst EXCEPT
                 ![i].state = "disposed",
                 ![i].invokedAtDispose = qInvoked[i],
                 ![i].pending = {f \in qFlights : f.inst = i}]
  /\ UNCHANGED <<qStore, qFlights, qNext, qSeq, qInvoked, qIssued, qBypassed,
                 qBypassDone, qLastSettled, qLastGood, qCallbacks>>
  /\ UNCHANGED <<wVars, clockVars, tVars, dVars, sVars, hVars, iVars, mVars, shVars, gVars, vVars>>

\* the state of a fresh client and of components that have not called
\* useQuery yet, but for their keys and options
FreshClient ==
  /\ qStore = [k \in KeyStrs |-> NoRecord]
  /\ qInst \in [Insts -> [key : ArrayKeys, enabled : Enabled, state : {"none"},
                          mark : {0}, invokedAtDispose : {0}, pending : {{}}]]
  /\ qListeners = <<>> /\ qFlights = {} /\ qNext = 1
  /\ qSeq = [k \in KeyStrs |-> 0]
  /\ qInvoked = [i \in Insts |-> 0] /\ qIssued = 0 /\ qBypassed = 0
  /\ qBypassDone = [k \in KeyStrs |-> 0] /\ qCallbacks = 0
  /\ qLastSettled = [k \in KeyStrs |-> NotSettled]
  /\ qLastGood = [k \in KeyStrs |-> "none"]

\* query.ts:60-61  a fresh client; the components that will call useQuery
\* and be disposed: A with enabled: true, B without `enabled`
InitQueryTeardown ==
  /\ FreshClient
  /\ qInst["A"].enabled = "true"
  /\ qInst["B"].enabled = "unset"
  /\ qInst["B"].key = Array(<<Str(<<"a">>), Str(<<"b">>)>>)
  /\ WatchIdle /\ ClockIdle /\ ThrottleIdle /\ DebounceIdle /\ StorageIdle
  /\ HistoryIdle /\ IgnorableIdle /\ MutationIdle /\ SharedHookIdle
  /\ GlobalStateIdle /\ ToValueIdle

NextQueryTeardown ==
  \/ \E i \in Insts : UseQuery(i)
  \/ \E i \in Insts : Mount(i)
  \/ \E i \in Insts : Refetch(i)
  \/ \E key \in ArrayKeys : InvalidateQuery(key)
  \/ \E i \in Insts : Dispose(i)
  \/ \E f \in qFlights, data \in Data : Resolve(f, data)
  \/ \E f \in qFlights, error \in Errors : Reject(f, error)

SpecQueryTeardown == InitQueryTeardown /\ [][NextQueryTeardown]_vars

\* query.ts:60-61  a fresh client; the components that will call useQuery:
\* A with accessors for its key and for `enabled`, B without `enabled`
InitQueryEnabled ==
  /\ FreshClient
  /\ qInst["A"].enabled \in {"true", "false"}
  /\ qInst["B"].enabled = "unset"
  /\ qInst["B"].key = Array(<<Str(<<"a">>), Str(<<"b">>)>>)
  /\ WatchIdle /\ ClockIdle /\ ThrottleIdle /\ DebounceIdle /\ StorageIdle
  /\ HistoryIdle /\ IgnorableIdle /\ MutationIdle /\ SharedHookIdle
  /\ GlobalStateIdle /\ ToValueIdle

NextQueryEnabled ==
  \/ \E i \in Insts : UseQuery(i)
  \/ \E i \in Insts : Mount(i)
  \/ Refetch("A")
  \/ \E key \in ArrayKeys : InvalidateQuery(key)
  \/ \E k \in ArrayKeys : SetKey("A", k)
  \/ \E v \in Enabled : SetEnabled("A", v)
  \/ \E f \in qFlights, data \in Data : Resolve(f, data)
  \/ \E f \in qFlights, error \in Errors : Reject(f, error)

SpecQueryEnabled == InitQueryEnabled /\ [][NextQueryEnabled]_vars

\* the record of key k is what the fetch that settled last on k wrote
Reflects(k) ==
  LET s == qLastSettled[k]
  IN /\ s.result = "fulfilled" =>
          (qStore[k].status = "success" /\ qStore[k].data = s.value)
     /\ s.result = "rejected" =>
          (qStore[k].status = "error" /\ qStore[k].error = s.value)

\* C27: a disposed instance has made no fetch since its teardown, and no
\* invalidation makes it fetch, whatever key is invalidated; no fetch is
\* aborted (every invocation of an async function is in flight or has
\* settled and called back), and a fetch that was in flight at the teardown
\* and settled last on its key has written its result to the shared record.
C27_TeardownStopsListening ==
  /\ \A i \in Insts :
       qInst[i].state = "disposed" =>
         /\ qInvoked[i] = qInst[i].invokedAtDispose
         /\ \A P \in QueryKeys :
              invalidateQuery(QueryState, P).invoked[i] = qInvoked[i]
         /\ \A p \in qInst[i].pending :
              (p \notin qFlights /\ qLastSettled[p.key].id = p.id
                 /\ FlightsOf(p.key) = {}) => Reflects(p.key)
  /\ qNext - 1 = Cardinality(qFlights) + qCallbacks

\* an instance was disposed while its fetch was in flight; afterwards its key
\* was invalidated, which made the other instance fetch, and the fetch of
\* the disposed instance settled and wrote the record
C27_Witness ==
  \E i \in Insts :
     /\ qInst[i].state = "disposed"
     /\ qInvoked[i] = 1
     /\ \E p \in qInst[i].pending :
          /\ p.via = "mount"
          /\ p \notin qFlights
          /\ qLastSettled[p.key].id = p.id
          /\ \E f \in qFlights :
               f.via = "invalidate" /\ f.key = p.key /\ f.inst # i

CacheUsing == {"mount", "key", "enabled"}
Live(i) == qInst[i].state \in {"created", "mounted"}

\* what a cache-using fetch of instance i does when the record of its key
\* exists: nothing is invoked or written, and the promise is rejected with
\* the error of the record if it has one, else fulfilled with its data
ServedFromCache(i) ==
  LET k == serializeKey(qInst[i].key)
  IN qStore[k].status # "none" =>
       /\ \A via \in CacheUsing : Fetch(QueryState, i, TRUE, via) = QueryState
       /\ FetchReturns(qStore, qInst[i], TRUE) =
            IF qStore[k].error # "none"
            THEN [kind |-> "rejected", value |-> qStore[k].error]
            ELSE [kind |-> "resolved", value |-> qStore[k].data]

\* C28: a cache-using fetch (mount, key change, enabled toggle) of any
\* instance for a key that has a record invokes nothing, writes nothing, and
\* is rejected with the record's error or else fulfilled with its data.
C28_CacheUsingFetchInert ==
  /\ \A i \in Insts : Live(i) => ServedFromCache(i)
  /\ \A f \in qFlights : f.via \in CacheUsing => f.id = 1
  /\ \A k \in KeyStrs : qLastSettled[k].via \in CacheUsing => qLastSettled[k].id = 1

\* C28 as the code has it: the same for the instances whose `enabled` does
\* not resolve to false; the cache-using fetch of a disabled instance is
\* fulfilled with undefined whatever the record holds. The async function of
\* a key is invoked by a cache-using fetch only when no fetch of that key
\* was made before.
C28_CacheUsingFetchInertEnabled ==
  /\ \A i \in Insts :
       Live(i) =>
         IF qInst[i].enabled = "false"
         THEN /\ \A via \in CacheUsing :
                   Fetch(QueryState, i, TRUE, via) = QueryState
              /\ FetchReturns(qStore, qInst[i], TRUE) =
                   [kind |-> "resolved", value |-> "none"]
         ELSE ServedFromCache(i)
  /\ \A f \in qFlights : f.via \in CacheUsing => f.id = 1
  /\ \A k \in KeyStrs : qLastSettled[k].via \in CacheUsing => qLastSettled[k].id = 1

\* both instances are mounted on one key while the fetch of the first is in
\* flight and the record is "loading" without data: the second one invoked
\* nothing
C28_Witness ==
  \E i, j \in Insts :
     /\ i # j
     /\ qInst[i].state = "mounted" /\ qInst[j].state = "mounted"
     /\ qInst[i].key = qInst[j].key
     /\ qInst[j].enabled # "false"
     /\ qInvoked[i] = 1 /\ qInvoked[j] = 0
     /\ qStore[serializeKey(qInst[i].key)].status = "loading"
     /\ qStore[serializeKey(qInst[i].key)].data = "none"
     /\ \E f \in qFlights : f.inst = i /\ f.via \in CacheUsing

\* C29: while `enabled` of an instance is false, no fetch of the instance
\* invokes its async function or changes the client (it has invoked nothing
\* since it became disabled, whatever mounts, key changes, invalidations and
\* refetches happened), refetch() is fulfilled with undefined, and a change
\* of `enabled` to true by itself makes a mounted instance fetch: the async
\* function is invoked if the key has no record, the cache answers if it has.
C29_DisabledIsInert ==
  \A i \in Insts :
     (Live(i) /\ qInst[i].enabled = "false") =>
       /\ qInvoked[i] = qInst[i].mark
       /\ \A useCache \in BOOLEAN :
            /\ Fetch(QueryState, i, useCache, "refetch") = QueryState
            /\ FetchReturns(qStore, qInst[i], useCache) =
                 [kind |-> "resolved", value |-> "none"]
       /\ \A P \in QueryKeys :
            invalidateQuery(QueryState, P).invoked[i] = qInvoked[i]
       /\ qInst[i].state = "mounted" =>
            LET k == serializeKey(qInst[i].key)
                st == EnabledChanged(QueryState,
                                     [qInst[i] EXCEPT !.enabled = "true"], i)
            IN IF qStore[k].status = "none"
               THEN /\ st.invoked[i] = qInvoked[i] + 1
                    /\ st.store[k].status = "loading"
               ELSE st = QueryState

\* an instance that had invoked nothing while it was disabled fetched when
\* `enabled` became true
C29_Witness ==
  \E f \in qFlights :
     /\ f.via = "enabled"
     /\ qInst[f.inst].state = "mounted"
     /\ qInst[f.inst].enabled = "true"
     /\ qInst[f.inst].mark = 0
     /\ qInvoked[f.inst] = 1

====
